---- MODULE Spec2Model ----
(***************************************************************************)
(* Verification model of audacity-project-tools.                           *)
(*                                                                         *)
(* The module holds the chunked byte buffer (Buffer), the WAV assembler    *)
(* (WaveFile), the binary XML codec (BinaryXMLConverter), the project      *)
(* model (AudacityProject) and the command line driver (main), each        *)
(* translated from its C++ source, together with one specification per     *)
(* component that drives the translated operations over bounded inputs.    *)
(*                                                                         *)
(* Bytes are naturals in 0..255.  A std::string / std::string_view is the  *)
(* sequence of its bytes.  A scalar held in memory is the little-endian    *)
(* sequence of the bytes of its object representation.                     *)
(*                                                                         *)
(* The result of a call that the code reads more than once is bound once:  *)
(* CHOOSE the \in { e(r) : r \in {Call} } : TRUE is the element of a        *)
(* singleton set, e(Call), with Call evaluated before e.                   *)
(***************************************************************************)
EXTENDS Integers, Sequences, FiniteSets, TLC

VARIABLES
    \* ---- Buffer harness
    buffer,      \* the Buffer under test
    written,     \* every byte handed to append so far, in order
    lastRead,    \* the outcome of the last Buffer::read
    appends,     \* the number of append calls since the buffer was empty
    \* ---- WaveFile harness
    waveFile,    \* the WaveFile object
    wavOut,      \* the file writeFile produced, or NoFile
    \* ---- codec harness
    codec,       \* the document, the trees parsed from it and the blobs written
    \* ---- project harness and command line driver
    storage,          \* the files and the log of the statements that change them
    projectDatabase,  \* the AudacityDatabase object
    projectObj,       \* the AudacityProject object and the status of its constructor
    clipFiles,        \* what the last extractClips wrote
    lastOp,           \* the last operation called, with its result
    run               \* a run of main: its flags, its position and its exit code

vars == <<buffer, written, lastRead, appends, waveFile, wavOut, codec,
          storage, projectDatabase, projectObj, clipFiles, lastOp, run>>

\* What the actions of one specification leave alone: the variables of the
\* other specifications.
projVars == <<storage, projectDatabase, projectObj, clipFiles, lastOp, run>>
bufOthers == <<waveFile, wavOut, codec, projVars>>
wavOthers == <<buffer, written, lastRead, appends, codec, projVars>>
codecOthers == <<buffer, written, lastRead, appends, waveFile, wavOut, projVars>>
projOthers == <<buffer, written, lastRead, appends, waveFile, wavOut, codec, run>>
mainOthers == <<buffer, written, lastRead, appends, waveFile, wavOut, codec, lastOp>>

Min(a, b) == IF a < b THEN a ELSE b
Max(a, b) == IF a > b THEN a ELSE b

(***************************************************************************)
(* Buffer (Buffer.h, Buffer.cpp)                                           *)
(*                                                                         *)
(* BUFFER_SIZE is 1024 * 1024 in the source; the model scales the chunk    *)
(* size down.  A chunk is kept as the sequence of the bytes written to it: *)
(* every chunk but the last holds BUFFER_SIZE bytes, the last one holds    *)
(* mLastChunkOffset bytes.  The zero bytes that follow mLastChunkOffset in *)
(* the std::array are never read by any operation.                         *)
(***************************************************************************)
BUFFER_SIZE == 1024

NewBuffer == [mChunks |-> <<>>, mLastChunkOffset |-> 0]

Buffer_reset(b) == [mChunks |-> <<>>, mLastChunkOffset |-> 0]

Buffer_getSize(b) ==
    IF b.mChunks = <<>> THEN 0
    ELSE (Len(b.mChunks) - 1) * BUFFER_SIZE + b.mLastChunkOffset

\* The while loop of Buffer::append.
RECURSIVE Buffer_appendLoop(_, _)
Buffer_appendLoop(b, data) ==
    IF data = <<>> THEN b
    ELSE
        (CHOOSE the \in {
            (CHOOSE the \in {
                Buffer_appendLoop(
                    [mChunks |-> [b1.mChunks EXCEPT ![Len(b1.mChunks)] =
                                      @ \o SubSeq(data, 1, chunkSize)],
                     mLastChunkOffset |-> b1.mLastChunkOffset + chunkSize],
                    SubSeq(data, chunkSize + 1, Len(data))) :
                chunkSize \in {Min(BUFFER_SIZE - b1.mLastChunkOffset, Len(data))} } : TRUE) :
            b1 \in {IF b.mChunks = <<>> \/ b.mLastChunkOffset = BUFFER_SIZE
                    THEN [mChunks |-> Append(b.mChunks, <<>>), mLastChunkOffset |-> 0]
                    ELSE b} } : TRUE)

\* bool Buffer::append(const void* data, size_t size): the buffer afterwards.
Buffer_append(b, data) ==
    IF data = <<>> THEN b ELSE Buffer_appendLoop(b, data)

\* template<T> bool Buffer::append(T data): `bytes` is the object representation.
Buffer_appendScalar(b, bytes) ==
    IF b.mChunks = <<>> \/ (BUFFER_SIZE - b.mLastChunkOffset) < Len(bytes)
    THEN Buffer_append(b, bytes)
    ELSE [mChunks |-> [b.mChunks EXCEPT ![Len(b.mChunks)] = @ \o bytes],
          mLastChunkOffset |-> b.mLastChunkOffset + Len(bytes)]

\* The while loop of Buffer::read: `chunk` is the iterator, which the loop
\* never advances; `offset` is the offset inside the chunk.
RECURSIVE Buffer_readLoop(_, _, _, _)
Buffer_readLoop(b, chunk, offset, bytesLeft) ==
    IF bytesLeft = 0 THEN <<>>
    ELSE
        LET chunkSize == Min(BUFFER_SIZE - offset, bytesLeft)
        IN SubSeq(b.mChunks[chunk], offset + 1, offset + chunkSize)
               \o Buffer_readLoop(b, chunk, 0, bytesLeft - chunkSize)

\* size_t Buffer::read(void* data, size_t offset, size_t size): the bytes
\* copied to data (their count is the return value).
Buffer_read(b, offset, size) ==
    IF size = 0 THEN <<>>
    ELSE
        (CHOOSE the \in {
            IF offset > bufferSize THEN <<>>
            ELSE Buffer_readLoop(b, (offset \div BUFFER_SIZE) + 1,
                                 offset - BUFFER_SIZE * (offset \div BUFFER_SIZE),
                                 IF offset + size > bufferSize
                                 THEN bufferSize - offset ELSE size) :
            bufferSize \in {Buffer_getSize(b)} } : TRUE)

\* template<T> size_t Buffer::read(T& data, size_t offset): the bytes stored
\* in data; the empty sequence stands for the return value 0.
Buffer_readScalar(b, offset, size) ==
    IF Buffer_getSize(b) < offset + size THEN <<>>
    ELSE
        LET chunkIndex == offset \div BUFFER_SIZE
            offset1 == offset - BUFFER_SIZE * chunkIndex
        IN IF BUFFER_SIZE < offset1 + size
           THEN Buffer_read(b, offset1, size)
           ELSE SubSeq(b.mChunks[chunkIndex + 1], offset1 + 1, offset1 + size)

RECURSIVE Buffer_linearLoop(_, _, _)
Buffer_linearLoop(b, i, bytesLeft) ==
    IF i > Len(b.mChunks) THEN <<>>
    ELSE
        LET chunkSize == Min(BUFFER_SIZE, bytesLeft)
        IN SubSeq(b.mChunks[i], 1, chunkSize)
               \o Buffer_linearLoop(b, i + 1, bytesLeft - chunkSize)

\* std::vector<uint8_t> Buffer::getLinearRepresentation()
Buffer_getLinearRepresentation(b) == Buffer_linearLoop(b, 1, Buffer_getSize(b))

(***************************************************************************)
(* SampleFormat (SampleFormat.h, SampleFormat.cpp)                         *)
(***************************************************************************)
Int16 == 131073        \* 0x00020001
Int24 == 262145        \* 0x00040001
Float32 == 262159      \* 0x0004000F

SampleFormats == {Int16, Int24, Float32}

\* uint32_t BytesPerSample(SampleFormat): 0 stands for the runtime_error of
\* the default branch.
BytesPerSample(format) ==
    CASE format = Int16 -> 2
      [] format = Int24 -> 3
      [] format = Float32 -> 4
      [] OTHER -> 0

\* uint32_t DiskBytesPerSample(SampleFormat)
DiskBytesPerSample(format) ==
    CASE format = Int16 -> 2
      [] format = Int24 -> 4
      [] format = Float32 -> 4
      [] OTHER -> 0

(***************************************************************************)
(* WaveFile (WaveFile.h, WaveFile.cpp)                                     *)
(***************************************************************************)
HeaderSize == 44

\* WaveFile::WaveFile
WaveFile_new(fmt, sampleRate, numChannels) ==
    [mFmt |-> fmt, mSampleRate |-> sampleRate, mNumChannels |-> numChannels,
     mChannels |-> [c \in 1..numChannels |-> NewBuffer]]

\* void WaveFile::writeBlock(data, blockSize, channel); channel is 0-based.
WaveFile_writeBlock(w, data, channel) ==
    [w EXCEPT !.mChannels[channel + 1] = Buffer_append(@, data)]

\* std::max_element over the channels by getSize: the first largest one.
MaxChannel(w) ==
    CHOOSE c \in 1..w.mNumChannels :
        /\ \A d \in 1..w.mNumChannels :
               Buffer_getSize(w.mChannels[d]) <= Buffer_getSize(w.mChannels[c])
        /\ \A d \in 1..(c - 1) :
               Buffer_getSize(w.mChannels[d]) < Buffer_getSize(w.mChannels[c])

\* Overwrite dst[at+1 .. at+Len(src)] with src (memcpy into sampleData).
Overwrite(dst, at, src) ==
    [i \in 1..Len(dst) |-> IF i > at /\ i <= at + Len(src) THEN src[i - at] ELSE dst[i]]

\* The inner loop of writeFile over the channels for one sample frame:
\* sampleData after it.
RECURSIVE WaveFile_frame(_, _, _, _, _)
WaveFile_frame(w, bytesPerSample, offset, channelIndex, sampleData) ==
    IF channelIndex >= w.mNumChannels THEN sampleData
    ELSE
        WaveFile_frame(w, bytesPerSample, offset, channelIndex + 1,
            Overwrite(sampleData, channelIndex * bytesPerSample,
                      IF Buffer_getSize(w.mChannels[channelIndex + 1]) >= offset
                      THEN Buffer_read(w.mChannels[channelIndex + 1], offset, bytesPerSample)
                      ELSE [i \in 1..bytesPerSample |-> 0]))

\* The outer loop of writeFile over the sample frames: the bytes written
\* after the header.
RECURSIVE WaveFile_frames(_, _, _, _, _)
WaveFile_frames(w, bytesPerSample, sampleIndex, maxSamples, sampleData) ==
    IF sampleIndex >= maxSamples THEN <<>>
    ELSE
        (CHOOSE the \in {
            sd \o WaveFile_frames(w, bytesPerSample, sampleIndex + 1, maxSamples, sd) :
            sd \in {WaveFile_frame(w, bytesPerSample, sampleIndex * bytesPerSample, 0,
                                   sampleData)} } : TRUE)

\* void WaveFile::writeFile(): the file written (header fields and data).
WaveFile_writeFile(w) ==
    (CHOOSE the \in {
        [header |-> [ChunkSize |-> 36 + w.mNumChannels * size,
                     Subchunk1Size |-> 16,
                     AudioFormat |-> IF w.mFmt = Float32 THEN 3 ELSE 1,
                     NumChannels |-> w.mNumChannels,
                     SampleRate |-> w.mSampleRate,
                     ByteRate |-> w.mSampleRate * w.mNumChannels * bytesPerSample,
                     BlockAlign |-> w.mNumChannels * bytesPerSample,
                     BitsPerSample |-> bytesPerSample * 8,
                     Subchunk2Size |-> w.mNumChannels * size],
         headerBytes |-> HeaderSize,
         data |-> WaveFile_frames(w, bytesPerSample, 0, size \div bytesPerSample,
                                  [i \in 1..(w.mNumChannels * bytesPerSample) |-> 0])] :
        bytesPerSample \in {BytesPerSample(w.mFmt)},
        size \in {Buffer_getSize(w.mChannels[MaxChannel(w)])} } : TRUE)

(***************************************************************************)
(* Scalars.  A scalar in memory or on the wire is the little-endian        *)
(* sequence of its bytes.  Model integers stay below Huge = 2^30: a        *)
(* decoded magnitude of Huge or more is kept as Huge (such a value is only *)
(* ever compared with buffer sizes, which are far below it).               *)
(***************************************************************************)
Huge == 1024 * 1024 * 1024

ByteAt(bytes, i) == IF i <= Len(bytes) THEN bytes[i] ELSE 0

\* The value of an unsigned little-endian integer of 1, 2, 4 or 8 bytes.
DecodeUnsigned(bytes) ==
    IF (\E i \in 5..Len(bytes) : bytes[i] # 0) \/ ByteAt(bytes, 4) >= 64
    THEN Huge
    ELSE ByteAt(bytes, 1) + 256 * ByteAt(bytes, 2) + 65536 * ByteAt(bytes, 3)
             + 16777216 * ByteAt(bytes, 4)

\* The value of a two's complement little-endian integer.
DecodeSigned(bytes) ==
    IF bytes[Len(bytes)] < 128 THEN DecodeUnsigned(bytes)
    ELSE (CHOOSE the \in {
        IF m >= Huge THEN 0 - Huge ELSE 0 - (m + 1) :
        m \in {DecodeUnsigned([i \in 1..Len(bytes) |-> 255 - bytes[i]])} } : TRUE)

\* The n bytes of the unsigned value v, v < Huge (conversion to a narrower
\* type keeps the low bytes).
EncodeUnsigned(v, n) ==
    [i \in 1..n |-> CASE i = 1 -> v % 256
                      [] i = 2 -> (v \div 256) % 256
                      [] i = 3 -> (v \div 65536) % 256
                      [] i = 4 -> (v \div 16777216) % 256
                      [] OTHER -> 0]

\* The n bytes of the two's complement value v, -Huge < v < Huge.
EncodeSigned(v, n) ==
    IF v >= 0 THEN EncodeUnsigned(v, n)
    ELSE (CHOOSE the \in {
        [i \in 1..n |-> 255 - m[i]] : m \in {EncodeUnsigned((0 - v) - 1, n)} } : TRUE)

(***************************************************************************)
(* FieldTypes (BinaryXMLConverter.cpp)                                     *)
(***************************************************************************)
FT_CharSize == 0
FT_StartTag == 1
FT_EndTag == 2
FT_String == 3
FT_Int == 4
FT_Bool == 5
FT_Long == 6
FT_LongLong == 7
FT_SizeT == 8
FT_Float == 9
FT_Double == 10
FT_Data == 11
FT_Raw == 12
FT_Push == 13
FT_Pop == 14
FT_Name == 15

(***************************************************************************)
(* Stream (BinaryXMLConverter.cpp).  A stream is [mOffset, mCharSize] over *)
(* a Buffer; mBufferSize is the size of that buffer.  Every operation      *)
(* returns the stream afterwards and ok = FALSE when it throws.            *)
(***************************************************************************)
NewStream == [mOffset |-> 0, mCharSize |-> 0]

\* template<T> T Stream::read(), sizeof(T) = size
Stream_read(buf, st, size) ==
    (CHOOSE the \in {
        IF Len(bytes) # size
        THEN [ok |-> FALSE, bytes |-> <<>>, st |-> st]
        ELSE [ok |-> TRUE, bytes |-> bytes, st |-> [st EXCEPT !.mOffset = @ + size]] :
        bytes \in {Buffer_readScalar(buf, st.mOffset, size)} } : TRUE)

Stream_setCharSize(st, size) == [st EXCEPT !.mCharSize = size]

\* utf8::utf16to8 / utf8::utf32to8 of one code point (code points below
\* 0x10000; a surrogate is rejected by the library).
Utf8Of(cp) ==
    IF cp < 128 THEN <<cp>>
    ELSE IF cp < 2048 THEN <<192 + (cp \div 64), 128 + (cp % 64)>>
    ELSE <<224 + (cp \div 4096), 128 + ((cp \div 64) % 64), 128 + (cp % 64)>>

IsSurrogate(cp) == cp >= 55296 /\ cp <= 57343

RECURSIVE ToUtf8(_, _, _)
ToUtf8(data, width, symbolsCount) ==
    IF symbolsCount = 0 THEN [ok |-> TRUE, str |-> <<>>]
    ELSE
        (CHOOSE the \in {
            IF cp >= 65536 \/ IsSurrogate(cp) \/ ~rest.ok
            THEN [ok |-> FALSE, str |-> <<>>]
            ELSE [ok |-> TRUE, str |-> Utf8Of(cp) \o rest.str] :
            cp \in {DecodeUnsigned(SubSeq(data, 1, width))},
            rest \in {ToUtf8(SubSeq(data, width + 1, Len(data)), width,
                             symbolsCount - 1)} } : TRUE)

\* A readString that returns the bytes it found, however many were declared.
Stream_readString_unchecked(buf, st, useInt) ==
    (CHOOSE the \in {
        IF ~count.ok THEN [ok |-> FALSE, str |-> <<>>, st |-> st]
        ELSE [ok |-> TRUE,
              str |-> Buffer_read(buf, count.st.mOffset, DecodeUnsigned(count.bytes)),
              st |-> [count.st EXCEPT !.mOffset = @ + DecodeUnsigned(count.bytes)]] :
        count \in {Stream_read(buf, st, IF useInt THEN 4 ELSE 2)} } : TRUE)

\* std::string Stream::readString(bool useInt)
Stream_readString(buf, st, useInt) ==
    IF st.mCharSize = 0 THEN [ok |-> FALSE, str |-> <<>>, st |-> st]
    ELSE
        (CHOOSE the \in {
            IF ~count.ok THEN [ok |-> FALSE, str |-> <<>>, st |-> st]
            ELSE (CHOOSE the \in {
                (CHOOSE the \in {
                    IF bytesCount # Len(data)
                    THEN [ok |-> FALSE, str |-> <<>>, st |-> count.st]
                    ELSE IF st.mCharSize = 1 THEN [ok |-> TRUE, str |-> data, st |-> st2]
                    ELSE IF st.mCharSize = 2 \/ st.mCharSize = 4
                    THEN (CHOOSE the \in {
                        [ok |-> conv.ok, str |-> conv.str, st |-> st2] :
                        conv \in {ToUtf8(data, st.mCharSize,
                                         bytesCount \div st.mCharSize)} } : TRUE)
                    ELSE [ok |-> FALSE, str |-> <<>>, st |-> st2] :
                    data \in {Buffer_read(buf, count.st.mOffset, bytesCount)},
                    st2 \in {[count.st EXCEPT !.mOffset = @ + bytesCount]} } : TRUE) :
                bytesCount \in {DecodeUnsigned(count.bytes)} } : TRUE) :
            count \in {Stream_read(buf, st, IF useInt THEN 4 ELSE 2)} } : TRUE)

\* void Stream::skip(size_t bytes)
Stream_skip(buf, st, bytes) ==
    IF st.mOffset + bytes > Buffer_getSize(buf)
    THEN [ok |-> FALSE, st |-> st]
    ELSE [ok |-> TRUE, st |-> [st EXCEPT !.mOffset = @ + bytes]]

\* void Stream::skipString(bool useInt)
Stream_skipString(buf, st, useInt) ==
    (CHOOSE the \in {
        IF ~count.ok THEN [ok |-> FALSE, st |-> st]
        ELSE Stream_skip(buf, count.st, DecodeUnsigned(count.bytes)) :
        count \in {Stream_read(buf, st, IF useInt THEN 4 ELSE 2)} } : TRUE)

Stream_isEof(buf, st) == Buffer_getSize(buf) = st.mOffset

(***************************************************************************)
(* IdsLookup (BinaryXMLConverter.cpp).  mIds is the vector of names.       *)
(* store() writes mIds[index] past the end of the vector when index is     *)
(* neither the size nor the last position: undefined behaviour.  The       *)
(* builds either leave the vector as resized (the element written lies     *)
(* outside it) or corrupt the heap; ub.lookupCrash selects the outcome.    *)
(***************************************************************************)
IdsLookup_store(mIds, index, value, ub) ==
    LET size == Len(mIds)
    IN IF index = size THEN [ok |-> TRUE, mIds |-> Append(mIds, value)]
       ELSE IF index + 1 = size THEN [ok |-> TRUE, mIds |-> [mIds EXCEPT ![index + 1] = value]]
       ELSE IF ub.lookupCrash THEN [ok |-> FALSE, mIds |-> mIds]
       ELSE IF index + 1 < size THEN [ok |-> TRUE, mIds |-> SubSeq(mIds, 1, index)]
       ELSE [ok |-> TRUE, mIds |-> mIds]

\* std::string_view IdsLookup::get(uint16_t index): mIds.at(index)
IdsLookup_get(mIds, index) ==
    IF index < Len(mIds) THEN [ok |-> TRUE, str |-> mIds[index + 1]]
    ELSE [ok |-> FALSE, str |-> <<>>]

(***************************************************************************)
(* Strings the code compares names with, as byte sequences.                *)
(***************************************************************************)
S_waveblock == <<119, 97, 118, 101, 98, 108, 111, 99, 107>>    \* "waveblock"
S_sequence == <<115, 101, 113, 117, 101, 110, 99, 101>>    \* "sequence"
S_waveclip == <<119, 97, 118, 101, 99, 108, 105, 112>>    \* "waveclip"
S_wavetrack == <<119, 97, 118, 101, 116, 114, 97, 99, 107>>    \* "wavetrack"
S_start == <<115, 116, 97, 114, 116>>    \* "start"
S_blockid == <<98, 108, 111, 99, 107, 105, 100>>    \* "blockid"
S_badblock == <<98, 97, 100, 98, 108, 111, 99, 107>>    \* "badblock"
S_maxsamples == <<109, 97, 120, 115, 97, 109, 112, 108, 101, 115>>    \* "maxsamples"
S_numsamples == <<110, 117, 109, 115, 97, 109, 112, 108, 101, 115>>    \* "numsamples"
S_sampleformat == <<115, 97, 109, 112, 108, 101, 102, 111, 114, 109, 97, 116>>    \* "sampleformat"
S_offset == <<111, 102, 102, 115, 101, 116>>    \* "offset"
S_trimLeft == <<116, 114, 105, 109, 76, 101, 102, 116>>    \* "trimLeft"
S_trimRight == <<116, 114, 105, 109, 82, 105, 103, 104, 116>>    \* "trimRight"
S_name == <<110, 97, 109, 101>>    \* "name"
S_channel == <<99, 104, 97, 110, 110, 101, 108>>    \* "channel"
S_linked == <<108, 105, 110, 107, 101, 100>>    \* "linked"
S_rate == <<114, 97, 116, 101>>    \* "rate"
S_true == <<116, 114, 117, 101>>    \* "true"
S_zero == <<48>>    \* "0"

(***************************************************************************)
(* AttributeValue (XMLHandler.h): the std::variant, as [kind, bytes] with  *)
(* bytes the object representation of the alternative held (the            *)
(* characters for a string_view).                                          *)
(*                                                                         *)
(* A double is decoded through DoubleTable, which lists the IEEE-754       *)
(* patterns of the multiples of 1/4 the model uses; q is the value in      *)
(* quarters.                                                               *)
(***************************************************************************)
AttributeKinds == {"bool", "int32", "uint32", "int64", "size_t", "float", "double", "string"}

DoubleTable ==
    << [q |-> 0,  bytes |-> <<0, 0, 0, 0, 0, 0, 0, 0>>],        \* 0.0
       [q |-> 1,  bytes |-> <<0, 0, 0, 0, 0, 0, 208, 63>>],     \* 0.25
       [q |-> 2,  bytes |-> <<0, 0, 0, 0, 0, 0, 224, 63>>],     \* 0.5
       [q |-> 3,  bytes |-> <<0, 0, 0, 0, 0, 0, 232, 63>>],     \* 0.75
       [q |-> 4,  bytes |-> <<0, 0, 0, 0, 0, 0, 240, 63>>],     \* 1.0
       [q |-> 5,  bytes |-> <<0, 0, 0, 0, 0, 0, 244, 63>>],     \* 1.25
       [q |-> 6,  bytes |-> <<0, 0, 0, 0, 0, 0, 248, 63>>],     \* 1.5
       [q |-> 8,  bytes |-> <<0, 0, 0, 0, 0, 0, 0, 64>>],       \* 2.0
       [q |-> 10, bytes |-> <<0, 0, 0, 0, 0, 0, 4, 64>>],       \* 2.5
       [q |-> 12, bytes |-> <<0, 0, 0, 0, 0, 0, 8, 64>>],       \* 3.0
       [q |-> -2, bytes |-> <<0, 0, 0, 0, 0, 0, 224, 191>>],    \* -0.5
       [q |-> -4, bytes |-> <<0, 0, 0, 0, 0, 0, 240, 191>>] >>  \* -1.0

DoubleRows(table) == {table[i] : i \in 1..Len(table)}

DoubleBytes(q) == (CHOOSE d \in DoubleRows(DoubleTable) : d.q = q).bytes

DoubleKnown(bytes) == \E d \in DoubleRows(DoubleTable) : d.bytes = bytes

DoubleQuarters(bytes) == (CHOOSE d \in DoubleRows(DoubleTable) : d.bytes = bytes).q

\* Truncation toward zero of q quarters: static_cast<integer>(double)
TruncQuarters(q) == IF q >= 0 THEN q \div 4 ELSE 0 - ((0 - q) \div 4)

IsDigit(c) == c >= 48 /\ c <= 57

RECURSIVE DigitsValue(_, _, _)
DigitsValue(str, i, acc) ==
    IF i > Len(str) \/ ~IsDigit(str[i]) THEN acc
    ELSE IF acc >= Huge \div 16 THEN Huge
    ELSE DigitsValue(str, i + 1, acc * 10 + (str[i] - 48))

\* std::from_chars(first, last, integer): an optional '-' and digits
FromChars(str) ==
    (CHOOSE the \in {
        IF first > Len(str) \/ ~IsDigit(str[first]) THEN [ok |-> FALSE, v |-> 0]
        ELSE (CHOOSE the \in {
            [ok |-> TRUE, v |-> IF first = 2 THEN 0 - m ELSE m] :
            m \in {DigitsValue(str, first, 0)} } : TRUE) :
        first \in {IF Len(str) >= 1 /\ str[1] = 45 THEN 2 ELSE 1} } : TRUE)

\* template<Ret> GetAttributeValue(attr, result): ok = FALSE when it throws,
\* v the result.  Ret is "int" (int, int32_t, int64_t), "double" (v is in
\* quarters), "bool" or "string_view".  A float converted to a number is
\* outside the modelled values and so is a double that DoubleTable does not
\* list; from_chars into a double is modelled for integer literals.
GetAttributeValue(value, Ret) ==
    LET Number(n) == [ok |-> TRUE, v |-> IF Ret = "double" THEN 4 * n ELSE n]
        Quarters(q) == [ok |-> TRUE, v |-> IF Ret = "double" THEN q ELSE TruncQuarters(q)]
    IN CASE Ret = "string_view" ->
                IF value.kind = "string" THEN [ok |-> TRUE, v |-> value.bytes]
                ELSE [ok |-> FALSE, v |-> <<>>]
         [] Ret # "string_view" /\ value.kind = "string" ->
                IF Ret = "bool"
                THEN [ok |-> TRUE, v |-> value.bytes = S_true \/ value.bytes = S_zero]
                ELSE (CHOOSE the \in {
                    [ok |-> r.ok, v |-> IF Ret = "double" THEN 4 * r.v ELSE r.v] :
                    r \in {FromChars(value.bytes)} } : TRUE)
         [] Ret = "bool" /\ value.kind \in {"float", "double"} ->
                [ok |-> TRUE, v |-> \/ \E i \in 1..(Len(value.bytes) - 1) : value.bytes[i] # 0
                                     \/ value.bytes[Len(value.bytes)] % 128 # 0]
         [] Ret = "bool" /\ value.kind \notin {"string", "float", "double"} ->
                [ok |-> TRUE, v |-> \E i \in 1..Len(value.bytes) : value.bytes[i] # 0]
         [] Ret \in {"int", "double"} /\ value.kind = "bool" ->
                Number(IF value.bytes[1] # 0 THEN 1 ELSE 0)
         [] Ret \in {"int", "double"} /\ value.kind \in {"int32", "int64"} ->
                Number(DecodeSigned(value.bytes))
         [] Ret \in {"int", "double"} /\ value.kind \in {"uint32", "size_t"} ->
                Number(DecodeUnsigned(value.bytes))
         [] Ret \in {"int", "double"} /\ value.kind = "double" /\ DoubleKnown(value.bytes) ->
                Quarters(DoubleQuarters(value.bytes))
         [] OTHER -> [ok |-> FALSE, v |-> 0]

(***************************************************************************)
(* ProjectTreeNode and the deserialized nodes (ProjectModel.h/.cpp).       *)
(*                                                                         *)
(* The heap of tree nodes is the sequence `nodes`; a ProjectTreeNode* is   *)
(* an index into it, 0 the null pointer.  Children holds the indices of    *)
(* the children.  The deques mWaveBlocks, mSequences, mClips, mWaveTracks  *)
(* are sequences and a pointer to an element is its index.                 *)
(***************************************************************************)
NewNode == [TagName |-> <<>>, Attributes |-> <<>>, Children |-> <<>>,
            ParentIndex |-> -1, Data |-> <<>>]

\* The constructors' loops over node->Attributes: `fields` maps an
\* attribute name to the member it sets and the member's type.
FieldOf(fields, name) == CHOOSE f \in fields : f.name = name

\* member = GetAttributeValue<type>(attr.Value), r being what the call
\* yields: the object afterwards, ok = FALSE when the call throws.
SetMember(obj, member, r) ==
    [ok |-> r.ok, obj |-> IF r.ok THEN [obj EXCEPT ![member] = r.v] ELSE obj]

RECURSIVE ReadAttributes(_, _, _, _)
ReadAttributes(attrs, i, fields, obj) ==
    CASE i > Len(attrs) -> [ok |-> TRUE, obj |-> obj]
      [] i <= Len(attrs) /\ (\A f \in fields : f.name # attrs[i].Name) ->
             ReadAttributes(attrs, i + 1, fields, obj)
      [] OTHER ->
             CHOOSE the \in {
                 IF ~set.ok THEN set ELSE ReadAttributes(attrs, i + 1, fields, set.obj) :
                 set \in {SetMember(obj, FieldOf(fields, attrs[i].Name).member,
                                    GetAttributeValue(attrs[i].Value,
                                        FieldOf(fields, attrs[i].Name).type))} } : TRUE

WaveBlockFields ==
    { [name |-> S_start, member |-> "mStart", type |-> "int"],
      [name |-> S_blockid, member |-> "mBlockId", type |-> "int"] }

SequenceFields ==
    { [name |-> S_maxsamples, member |-> "mMaxSamples", type |-> "int"],
      [name |-> S_numsamples, member |-> "mNumSamples", type |-> "int"],
      [name |-> S_sampleformat, member |-> "mFormat", type |-> "int"] }

ClipFields ==
    { [name |-> S_offset, member |-> "mOffset", type |-> "double"],
      [name |-> S_trimLeft, member |-> "mTrimLeft", type |-> "double"],
      [name |-> S_trimRight, member |-> "mTrimRight", type |-> "double"],
      [name |-> S_name, member |-> "mName", type |-> "string_view"] }

WaveTrackFields ==
    { [name |-> S_channel, member |-> "mChannel", type |-> "int"],
      [name |-> S_linked, member |-> "mLinked", type |-> "bool"],
      [name |-> S_name, member |-> "mName", type |-> "string_view"],
      [name |-> S_sampleformat, member |-> "mSampleFormat", type |-> "int"],
      [name |-> S_rate, member |-> "mRate", type |-> "int"] }

\* WaveBlock::WaveBlock(node, parent): the members before the attribute
\* loop; mStart and mBlockId have no initializer, ub.uninit is what a read
\* of them yields when no attribute sets them.
WaveBlock_new(node, parent, parentBlocks, ub) ==
    [mXMLNode |-> node, mParent |-> parent, mParentIndex |-> parentBlocks,
     mStart |-> ub.uninit, mBlockId |-> ub.uninit]

Sequence_new(node, parent, parentSequences, ub) ==
    [mXMLNode |-> node, mParent |-> parent, mParentIndex |-> parentSequences,
     mMaxSamples |-> ub.uninit, mNumSamples |-> ub.uninit, mFormat |-> ub.uninit,
     mBlocks |-> <<>>]

Clip_new(node, parent, parentClips, ub) ==
    [mXMLNode |-> node, mParent |-> parent, mParentIndex |-> parentClips,
     mName |-> <<>>, mOffset |-> ub.uninit, mTrimLeft |-> ub.uninit,
     mTrimRight |-> ub.uninit, mSequences |-> <<>>]

WaveTrack_new(node, index, ub) ==
    [mXMLNode |-> node, mParentIndex |-> index, mName |-> <<>>,
     mSampleFormat |-> ub.uninit, mRate |-> ub.uninit, mChannel |-> ub.uninit,
     mLinked |-> (ub.uninit # 0), mClips |-> <<>>]

(***************************************************************************)
(* AudacityProject as XMLHandler (ProjectModel.cpp).                       *)
(*                                                                         *)
(* fault is "none" while the object is usable; "throw" after an exception  *)
(* left one of its handlers; "ub" after undefined behaviour (back() or     *)
(* pop_back() of an empty stack).                                          *)
(***************************************************************************)
NewProject ==
    [type |-> "project",
     nodes |-> <<>>, mProjectNode |-> 0,
     mReusableStringsCache |-> <<>>, mStringCache |-> <<>>,
     mWaveBlocks |-> <<>>, mSequences |-> <<>>, mClips |-> <<>>, mWaveTracks |-> <<>>,
     NodesStack |-> <<>>, DeserializedNodeStack |-> <<>>,
     mFromAutosave |-> FALSE,
     fault |-> "none"]

Contains(seq, x) == \E i \in 1..Len(seq) : seq[i] = x

\* The position of the first entry of seq equal to x (std::find), 1-based.
IndexOf(seq, x) == CHOOSE i \in 1..Len(seq) : seq[i] = x /\ \A j \in 1..(i - 1) : seq[j] # x

Back(seq) == seq[Len(seq)]

PopBack(seq) == SubSeq(seq, 1, Len(seq) - 1)

\* A CacheString that keeps every string in mStringCache, reusable or not.
CacheString_unpooled(h, view, reuse) ==
    [h EXCEPT !.mStringCache = Append(@, view)]

\* std::string_view AudacityProject::CacheString(view, reuse): the project
\* afterwards (the view returned has the characters of `view`).
CacheString(h, view, reuse) ==
    IF reuse
    THEN IF Contains(h.mReusableStringsCache, view) THEN h
         ELSE [h EXCEPT !.mReusableStringsCache = Append(@, view)]
    ELSE [h EXCEPT !.mStringCache = Append(@, view)]

\* The loop of HandleTagStart over the attributes, appending to node.
RECURSIVE CacheAttributes(_, _, _, _)
CacheAttributes(h, node, attributes, i) ==
    IF i > Len(attributes) THEN h
    ELSE (CHOOSE the \in {
        CacheAttributes(h1, node, attributes, i + 1) :
        h1 \in {[CacheString(IF attributes[i].Value.kind = "string"
                             THEN CacheString(h, attributes[i].Value.bytes, FALSE)
                             ELSE h,
                             attributes[i].Name, TRUE)
                     EXCEPT !.nodes[node].Attributes =
                         Append(@, [Name |-> attributes[i].Name,
                                    Value |-> attributes[i].Value])]} } : TRUE)

NoneElement == [kind |-> "monostate", ptr |-> 0]

\* The classes HandleTagStart builds an object of: the tag, the deque the
\* object is emplaced in and the attributes its constructor reads; for a
\* class built below a parent, the alternative std::get asks of the top of
\* DeserializedNodeStack and the list of the parent the constructor pushes
\* the object to.  A WaveTrack has no parent.
ElementClasses ==
    { [tag |-> S_waveblock, kind |-> "WaveBlock", deque |-> "mWaveBlocks",
       fields |-> WaveBlockFields, parentKind |-> "Sequence",
       parentDeque |-> "mSequences", childList |-> "mBlocks"],
      [tag |-> S_sequence, kind |-> "Sequence", deque |-> "mSequences",
       fields |-> SequenceFields, parentKind |-> "Clip",
       parentDeque |-> "mClips", childList |-> "mSequences"],
      [tag |-> S_waveclip, kind |-> "Clip", deque |-> "mClips",
       fields |-> ClipFields, parentKind |-> "WaveTrack",
       parentDeque |-> "mWaveTracks", childList |-> "mClips"],
      [tag |-> S_wavetrack, kind |-> "WaveTrack", deque |-> "mWaveTracks",
       fields |-> WaveTrackFields, parentKind |-> "none",
       parentDeque |-> "mWaveTracks", childList |-> "mClips"] }

\* The constructor of class `kind` up to its loop over the attributes.
NewElement(kind, node, parent, index, ub) ==
    CASE kind = "WaveBlock" -> WaveBlock_new(node, parent, index, ub)
      [] kind = "Sequence" -> Sequence_new(node, parent, index, ub)
      [] kind = "Clip" -> Clip_new(node, parent, index, ub)
      [] kind = "WaveTrack" -> WaveTrack_new(node, index, ub)

\* The branch of HandleTagStart for a tag of class c: emplace_back of the
\* object built from node and push_back of its address.
EmplaceElement(h, node, c, ub) ==
    IF c.parentKind # "none" /\ h.DeserializedNodeStack = <<>>
    THEN [h EXCEPT !.fault = "ub"]
    ELSE IF c.parentKind # "none" /\ Back(h.DeserializedNodeStack).kind # c.parentKind
    THEN [h EXCEPT !.fault = "throw"]
    ELSE
        LET parent == IF c.parentKind = "none" THEN 0 ELSE Back(h.DeserializedNodeStack).ptr
            index == IF c.parentKind = "none" THEN Len(h.mWaveTracks)
                     ELSE Len(h[c.parentDeque][parent][c.childList])
            self == Len(h[c.deque]) + 1
        IN (CHOOSE the \in {
            IF ~r.ok THEN [h EXCEPT !.fault = "throw"]
            ELSE IF c.parentKind = "none"
            THEN [h EXCEPT ![c.deque] = Append(@, r.obj),
                           !.DeserializedNodeStack =
                               Append(@, [kind |-> c.kind, ptr |-> self])]
            ELSE [h EXCEPT ![c.deque] = Append(@, r.obj),
                           ![c.parentDeque][parent][c.childList] = Append(@, self),
                           !.DeserializedNodeStack =
                               Append(@, [kind |-> c.kind, ptr |-> self])] :
            r \in {ReadAttributes(h.nodes[node].Attributes, 1, c.fields,
                                  NewElement(c.kind, node, parent, index, ub))} } : TRUE)

\* The first statement of HandleTagStart: the new ProjectTreeNode, pushed
\* on NodesStack.
PushNode(h, node) ==
    IF h.NodesStack = <<>>
    THEN [h EXCEPT !.nodes = Append(@, [NewNode EXCEPT !.ParentIndex = 0]),
                   !.mProjectNode = node,
                   !.NodesStack = <<node>>]
    ELSE [h EXCEPT !.nodes = Append([@ EXCEPT ![Back(h.NodesStack)].Children = Append(@, node)],
                                    [NewNode EXCEPT !.ParentIndex =
                                         Len(h.nodes[Back(h.NodesStack)].Children)]),
                   !.NodesStack = Append(@, node)]

\* void AudacityProject::HandleTagStart(name, attributes)
AudacityProject_HandleTagStart(h, name, attributes, ub) ==
    (CHOOSE the \in {
        IF \E c \in ElementClasses : c.tag = name
        THEN EmplaceElement(h3, Len(h.nodes) + 1,
                            CHOOSE c \in ElementClasses : c.tag = name, ub)
        ELSE [h3 EXCEPT !.DeserializedNodeStack = Append(@, NoneElement)] :
        h3 \in {CacheAttributes(
                    [CacheString(PushNode(h, Len(h.nodes) + 1), name, TRUE)
                         EXCEPT !.nodes[Len(h.nodes) + 1].TagName = name],
                    Len(h.nodes) + 1, attributes, 1)} } : TRUE)

\* void AudacityProject::HandleTagEnd(name)
AudacityProject_HandleTagEnd(h, name) ==
    IF h.NodesStack = <<>> \/ h.DeserializedNodeStack = <<>> THEN [h EXCEPT !.fault = "ub"]
    ELSE [h EXCEPT !.NodesStack = PopBack(@), !.DeserializedNodeStack = PopBack(@)]

\* void AudacityProject::HandleCharData(data)
AudacityProject_HandleCharData(h, data) ==
    IF h.NodesStack = <<>> THEN [h EXCEPT !.fault = "ub"]
    ELSE [h EXCEPT !.nodes[Back(h.NodesStack)].Data = data]

\* The decimal digits of a natural number.
RECURSIVE DecimalDigits(_)
DecimalDigits(n) ==
    IF n < 10 THEN <<48 + n>> ELSE Append(DecimalDigits(n \div 10), 48 + (n % 10))

\* fmt::format("{}", int)
FormatInt(v) == IF v < 0 THEN <<45>> \o DecimalDigits(0 - v) ELSE DecimalDigits(v)

\* A hexadecimal digit, lower case.
HexDigit(n) == IF n < 10 THEN 48 + n ELSE 87 + n

(***************************************************************************)
(* XMLConverter (BinaryXMLConverter.cpp): the handler that writes the      *)
(* events as XML text into a Buffer.  mSpaces is the length of the string  *)
(* of spaces.                                                              *)
(***************************************************************************)
X_gt_nl == <<62, 10>>    \* ">" and a line feed
X_lt == <<60>>    \* "<"
X_space == <<32>>    \* " "
X_eq_quote == <<61, 34>>    \* "=""
X_quote == <<34>>    \* """
X_empty_end == <<32, 47, 62, 10>>    \* " />" and a line feed
X_lt_slash == <<60, 47>>    \* "</"
X_apos == <<38, 97, 112, 111, 115, 59>>    \* "&apos;"
X_quot == <<38, 113, 117, 111, 116, 59>>    \* "&quot;"
X_amp == <<38, 97, 109, 112, 59>>    \* "&amp;"
X_lt_ent == <<38, 108, 116, 59>>    \* "&lt;"
X_gt_ent == <<38, 103, 116, 59>>    \* "&gt;"
X_false == <<102, 97, 108, 115, 101>>    \* "false"

NewConverter ==
    [type |-> "converter", mBuffer |-> NewBuffer, mLastTagName |-> <<>>, mSpaces |-> 0,
     mInTag |-> FALSE, fault |-> "none"]

\* void XMLConverter::write(std::string_view data)
XMLConverter_write(h, data) == [h EXCEPT !.mBuffer = Buffer_append(@, data)]

\* The digits after the point of q quarters.
QuarterDigits(q) ==
    CASE q % 4 = 0 -> <<>>
      [] q % 4 = 1 -> <<46, 50, 53>>
      [] q % 4 = 2 -> <<46, 53>>
      [] q % 4 = 3 -> <<46, 55, 53>>

\* fmt::format("{}", value) of the alternative the variant holds.  A
\* floating point value outside DoubleTable is written as the hexadecimal
\* digits of its bytes, which stand for its decimal text.
FormatValue(value) ==
    CASE value.kind = "string" -> value.bytes
      [] value.kind = "bool" -> IF value.bytes[1] # 0 THEN S_true ELSE X_false
      [] value.kind \in {"int32", "int64"} -> FormatInt(DecodeSigned(value.bytes))
      [] value.kind \in {"uint32", "size_t"} -> FormatInt(DecodeUnsigned(value.bytes))
      [] value.kind = "double" /\ DoubleKnown(value.bytes) ->
             (CHOOSE the \in {
                 (IF q < 0 THEN <<45>> ELSE <<>>)
                   \o DecimalDigits((IF q < 0 THEN 0 - q ELSE q) \div 4)
                   \o QuarterDigits(IF q < 0 THEN 0 - q ELSE q) :
                 q \in {DoubleQuarters(value.bytes)} } : TRUE)
      [] OTHER -> [i \in 1..(2 * Len(value.bytes)) |->
                      HexDigit(IF i % 2 = 1 THEN value.bytes[(i + 1) \div 2] \div 16
                               ELSE value.bytes[i \div 2] % 16)]

\* The loop over the attributes in HandleTagStart.
RECURSIVE XMLConverter_writeAttributes(_, _, _)
XMLConverter_writeAttributes(h, attributes, i) ==
    IF i > Len(attributes) THEN h
    ELSE XMLConverter_writeAttributes(
             XMLConverter_write(h, X_space \o attributes[i].Name \o X_eq_quote
                                     \o FormatValue(attributes[i].Value) \o X_quote),
             attributes, i + 1)

\* void XMLConverter::HandleTagStart(name, attributes)
XMLConverter_HandleTagStart(h, name, attributes) ==
    (CHOOSE the \in {
        [h2 EXCEPT !.mLastTagName = name, !.mInTag = TRUE, !.mSpaces = @ + 2] :
        h2 \in {XMLConverter_writeAttributes(
                    XMLConverter_write(h, (IF h.mInTag THEN X_gt_nl ELSE <<>>)
                                            \o [i \in 1..h.mSpaces |-> 32] \o X_lt \o name),
                    attributes, 1)} } : TRUE)

\* void XMLConverter::HandleTagEnd(name): pop_back of an empty mSpaces is
\* undefined.
XMLConverter_HandleTagEnd(h, name) ==
    IF h.mSpaces < 2 THEN [h EXCEPT !.fault = "ub"]
    ELSE [XMLConverter_write(h, IF h.mLastTagName = name THEN X_empty_end
                                ELSE [i \in 1..(h.mSpaces - 2) |-> 32] \o X_lt_slash
                                       \o name \o X_gt_nl)
              EXCEPT !.mSpaces = @ - 2, !.mInTag = FALSE]

\* A filter that lets every control byte through.
EscapedChar_unfiltered(ch) ==
    CASE ch = 39 -> X_apos
      [] ch = 34 -> X_quot
      [] ch = 38 -> X_amp
      [] ch = 60 -> X_lt_ent
      [] ch = 62 -> X_gt_ent
      [] OTHER -> <<ch>>

\* What HandleCharData writes for one character: the switch, and the
\* table charXMLCompatiblity for the bytes below 0x20.
EscapedChar(ch) ==
    CASE ch = 39 -> X_apos
      [] ch = 34 -> X_quot
      [] ch = 38 -> X_amp
      [] ch = 60 -> X_lt_ent
      [] ch = 62 -> X_gt_ent
      [] OTHER -> IF ch > 31 \/ ch \in {9, 10, 13} THEN <<ch>> ELSE <<>>

RECURSIVE EscapedText(_, _)
EscapedText(data, i) ==
    IF i > Len(data) THEN <<>> ELSE EscapedChar(data[i]) \o EscapedText(data, i + 1)

\* void XMLConverter::HandleCharData(data)
XMLConverter_HandleCharData(h, data) == XMLConverter_write(h, EscapedText(data, 1))

(***************************************************************************)
(* XMLHandler: the virtual calls, dispatched on the handler's class.       *)
(***************************************************************************)
XMLHandler_HandleTagStart(h, name, attributes, ub) ==
    CASE h.type = "project" -> AudacityProject_HandleTagStart(h, name, attributes, ub)
      [] h.type = "converter" -> XMLConverter_HandleTagStart(h, name, attributes)

XMLHandler_HandleTagEnd(h, name) ==
    CASE h.type = "project" -> AudacityProject_HandleTagEnd(h, name)
      [] h.type = "converter" -> XMLConverter_HandleTagEnd(h, name)

XMLHandler_HandleCharData(h, data) ==
    CASE h.type = "project" -> AudacityProject_HandleCharData(h, data)
      [] h.type = "converter" -> XMLConverter_HandleCharData(h, data)

(***************************************************************************)
(* XMLHandlerHelper and BinaryXMLConverter::Parse (BinaryXMLConverter.cpp) *)
(*                                                                         *)
(* The state of a running Parse is one record: the Stream (mOffset,        *)
(* mCharSize), the IdsLookup (mIds), the XMLHandlerHelper                  *)
(* (mCurrentTagName, mAttributes, mInTag) and the handler.  status is      *)
(* "ok" while Parse runs, "throw" once an exception leaves it, "ub" after  *)
(* undefined behaviour, "terminate" when the helper's destructor throws.   *)
(*                                                                         *)
(* mCurrentTagName and the attribute names are string_views into the       *)
(* strings of mIds.  A store() made while the helper holds such views      *)
(* (mInTag) may move or free the strings they point into; ub.staleNames    *)
(* selects whether the views then read as garbage.                         *)
(***************************************************************************)
NewParse(handler) ==
    [mOffset |-> 0, mCharSize |-> 0, mIds |-> <<>>,
     mCurrentTagName |-> <<>>, mAttributes |-> <<>>, mInTag |-> FALSE,
     handler |-> handler, status |-> "ok"]

StreamOf(ps) == [mOffset |-> ps.mOffset, mCharSize |-> ps.mCharSize]

WithStream(ps, st) == [ps EXCEPT !.mOffset = st.mOffset, !.mCharSize = st.mCharSize]

Throw(ps) == [ps EXCEPT !.status = "throw"]

WithHandler(ps, h) ==
    [ps EXCEPT !.handler = h,
               !.status = IF h.fault = "none" THEN @ ELSE h.fault]

\* void XMLHandlerHelper::emitStartTag() (private)
Helper_flushStartTag(ps, ub) ==
    (CHOOSE the \in {
        IF h.fault # "none" THEN WithHandler(ps, h)
        ELSE [ps EXCEPT !.handler = h, !.mAttributes = <<>>, !.mInTag = FALSE] :
        h \in {XMLHandler_HandleTagStart(ps.handler, ps.mCurrentTagName,
                                         ps.mAttributes, ub)} } : TRUE)

\* void XMLHandlerHelper::emitStartTag(name)
Helper_emitStartTag(ps, name, ub) ==
    (CHOOSE the \in {
        IF p1.status # "ok" THEN p1
        ELSE [p1 EXCEPT !.mCurrentTagName = name, !.mInTag = TRUE] :
        p1 \in {IF ps.mInTag THEN Helper_flushStartTag(ps, ub) ELSE ps} } : TRUE)

\* void XMLHandlerHelper::emitEndTag(name)
Helper_emitEndTag(ps, name, ub) ==
    (CHOOSE the \in {
        IF p1.status # "ok" THEN p1
        ELSE WithHandler(p1, XMLHandler_HandleTagEnd(p1.handler, name)) :
        p1 \in {IF ps.mInTag THEN Helper_flushStartTag(ps, ub) ELSE ps} } : TRUE)

\* void XMLHandlerHelper::addAttr(name, value), both overloads
Helper_addAttr(ps, name, value) ==
    IF ~ps.mInTag THEN Throw(ps)
    ELSE [ps EXCEPT !.mAttributes = Append(@, [Name |-> name, Value |-> value])]

\* A writeData that leaves the start tag of the open element unsent.
Helper_writeData_unflushed(ps, value, ub) ==
    WithHandler(ps, XMLHandler_HandleCharData(ps.handler, value))

\* void XMLHandlerHelper::writeData(value)
Helper_writeData(ps, value, ub) ==
    (CHOOSE the \in {
        IF p1.status # "ok" THEN p1
        ELSE WithHandler(p1, XMLHandler_HandleCharData(p1.handler, value)) :
        p1 \in {IF ps.mInTag THEN Helper_flushStartTag(ps, ub) ELSE ps} } : TRUE)

\* XMLHandlerHelper::~XMLHandlerHelper(), at the end of Parse and while an
\* exception unwinds it.  An exception leaving the destructor terminates
\* the process.
Helper_destroy(ps, ub) ==
    IF ~ps.mInTag \/ ps.status \in {"ub", "terminate"} THEN ps
    ELSE (CHOOSE the \in {
        CASE p1.status = "ok" ->
                 [p1 EXCEPT !.status = ps.status, !.handler.fault = ps.handler.fault]
          [] p1.status = "throw" -> [p1 EXCEPT !.status = "terminate"]
          [] OTHER -> p1 :
        p1 \in {Helper_emitEndTag([ps EXCEPT !.status = "ok",
                                             !.handler.fault = "none"],
                                  ps.mCurrentTagName, ub)} } : TRUE)

GarbageName == <<63>>

\* The views the helper holds after store(index, ...) into mIds, `before`
\* being mIds as it was.  push_back may move every string; an assignment
\* to the last entry frees or overwrites the characters of that entry
\* alone (the views are told apart by their characters); after the resize
\* of any other store every view may dangle.  A view that dangles reads
\* whatever the memory holds.
AfterStore(ps, before, index, ub) ==
    LET dangles(view) == (index + 1 = Len(before)) => view = before[index + 1]
    IN IF ps.mInTag /\ ub.staleNames
       THEN [ps EXCEPT !.mCurrentTagName = IF dangles(@) THEN GarbageName ELSE @,
                       !.mAttributes = [i \in 1..Len(@) |->
                                           [Name |-> IF dangles(@[i].Name)
                                                     THEN GarbageName ELSE @[i].Name,
                                            Value |-> @[i].Value]]]
       ELSE ps

\* The records that add an attribute holding a scalar:
\* the alternative of the variant and the width read.
ScalarKind(opCode) ==
    CASE opCode = FT_Int -> "int32"
      [] opCode = FT_Bool -> "bool"
      [] opCode = FT_Long -> "int32"
      [] opCode = FT_LongLong -> "int64"
      [] opCode = FT_SizeT -> "uint32"
      [] opCode = FT_Float -> "float"
      [] opCode = FT_Double -> "double"

ScalarWidth(opCode) ==
    CASE opCode = FT_Int -> 4
      [] opCode = FT_Bool -> 1
      [] opCode = FT_Long -> 4
      [] opCode = FT_LongLong -> 8
      [] opCode = FT_SizeT -> 4
      [] opCode = FT_Float -> 4
      [] opCode = FT_Double -> 8

ScalarOps == {FT_Int, FT_Bool, FT_Long, FT_LongLong, FT_SizeT, FT_Float, FT_Double}

\* The records of Parse that carry the id of a name: the part of the
\* iteration after the id is read.
Parse_named(buf, ps, ub, opCode, idr) ==
    IF opCode = FT_Name
    THEN CHOOSE the \in {
             IF ~str.ok THEN Throw(WithStream(ps, str.st))
             ELSE CHOOSE the \in {
                      IF ~st.ok THEN [WithStream(ps, str.st) EXCEPT !.status = "ub"]
                      ELSE AfterStore([WithStream(ps, str.st) EXCEPT !.mIds = st.mIds],
                                      ps.mIds, DecodeUnsigned(idr.bytes), ub) :
                      st \in {IdsLookup_store(ps.mIds, DecodeUnsigned(idr.bytes),
                                              str.str, ub)} } : TRUE :
             str \in {Stream_readString(buf, idr.st, FALSE)} } : TRUE
    ELSE CHOOSE the \in {
             IF ~name.ok THEN Throw(WithStream(ps, idr.st))
             ELSE CASE opCode = FT_StartTag ->
                           Helper_emitStartTag(WithStream(ps, idr.st), name.str, ub)
                    [] opCode = FT_EndTag ->
                           Helper_emitEndTag(WithStream(ps, idr.st), name.str, ub)
                    [] opCode = FT_String ->
                           CHOOSE the \in {
                               IF ~str.ok THEN Throw(WithStream(ps, str.st))
                               ELSE Helper_addAttr(WithStream(ps, str.st), name.str,
                                                   [kind |-> "string", bytes |-> str.str]) :
                               str \in {Stream_readString(buf, idr.st, TRUE)} } : TRUE
                    [] OTHER ->
                           CHOOSE the \in {
                               IF ~v.ok THEN Throw(WithStream(ps, idr.st))
                               ELSE CHOOSE the \in {
                                        IF p1.status # "ok" \/ opCode \notin {FT_Float, FT_Double}
                                        THEN p1
                                        ELSE CHOOSE the \in {
                                                 IF ~sk.ok THEN Throw(p1)
                                                 ELSE WithStream(p1, sk.st) :
                                                 sk \in {Stream_skip(buf, v.st, 4)} } : TRUE :
                                        p1 \in {Helper_addAttr(
                                                    WithStream(ps, v.st), name.str,
                                                    [kind |-> ScalarKind(opCode),
                                                     bytes |-> v.bytes])} } : TRUE :
                               v \in {Stream_read(buf, idr.st, ScalarWidth(opCode))} } : TRUE :
             name \in {IdsLookup_get(ps.mIds, DecodeUnsigned(idr.bytes))} } : TRUE

\* One iteration of the while loop of Parse: the record at mOffset.
Parse_record(buf, ps, ub) ==
    CHOOSE the \in {
        IF ~op.ok THEN Throw(ps)
        ELSE CASE op.bytes[1] = FT_CharSize ->
                      CHOOSE the \in {
                          IF ~v.ok THEN Throw(WithStream(ps, op.st))
                          ELSE WithStream(ps, Stream_setCharSize(v.st, v.bytes[1])) :
                          v \in {Stream_read(buf, op.st, 1)} } : TRUE
               [] op.bytes[1] = FT_Data ->
                      CHOOSE the \in {
                          IF ~str.ok THEN Throw(WithStream(ps, str.st))
                          ELSE Helper_writeData(WithStream(ps, str.st), str.str, ub) :
                          str \in {Stream_readString(buf, op.st, TRUE)} } : TRUE
               [] op.bytes[1] = FT_Raw ->
                      CHOOSE the \in {
                          IF ~sk.ok THEN Throw(WithStream(ps, sk.st))
                          ELSE WithStream(ps, sk.st) :
                          sk \in {Stream_skipString(buf, op.st, TRUE)} } : TRUE
               [] op.bytes[1] \in ({FT_StartTag, FT_EndTag, FT_String, FT_Name}
                                      \cup ScalarOps) ->
                      CHOOSE the \in {
                          IF ~idr.ok THEN Throw(WithStream(ps, op.st))
                          ELSE Parse_named(buf, ps, ub, op.bytes[1], idr) :
                          idr \in {Stream_read(buf, op.st, 2)} } : TRUE
               [] OTHER -> Throw(WithStream(ps, op.st)) :
        op \in {Stream_read(buf, StreamOf(ps), 1)} } : TRUE

\* The test of the while loop of Parse fails, or an exception has left it.
Parse_done(buf, ps) == ps.status # "ok" \/ Stream_isEof(buf, StreamOf(ps))

\* The while (!stream.isEof()) loop of Parse.  Parse_steps runs up to
\* 2^n iterations of it, the ones after the loop has ended being no-ops, so
\* that the evaluation nests by batches and not by iterations.
RECURSIVE Parse_steps(_, _, _, _)
Parse_steps(buf, ps, ub, n) ==
    CASE Parse_done(buf, ps) -> ps
      [] ~Parse_done(buf, ps) /\ n = 0 -> Parse_record(buf, ps, ub)
      [] OTHER -> CHOOSE the \in { Parse_steps(buf, half, ub, n - 1) :
                                   half \in {Parse_steps(buf, ps, ub, n - 1)} } : TRUE

RECURSIVE Parse_loop(_, _, _)
Parse_loop(buf, ps, ub) ==
    IF Parse_done(buf, ps) THEN ps
    ELSE CHOOSE the \in { Parse_loop(buf, batch, ub) :
                          batch \in {Parse_steps(buf, ps, ub, 6)} } : TRUE

\* void BinaryXMLConverter::Parse(buffer, handler): the state Parse ends
\* in, the handler included.
Parse(buf, handler, ub) == Helper_destroy(Parse_loop(buf, NewParse(handler), ub), ub)

(***************************************************************************)
(* WriteNode and BinaryXMLConverter::SerializeProject                      *)
(* (BinaryXMLConverter.cpp).  The serializer is the sequence of the        *)
(* Buffer::append calls it makes: an item is the bytes of one call and     *)
(* whether the call is the template append<T> (scalar) or                  *)
(* append(data, size).                                                     *)
(***************************************************************************)
ScalarItem(bytes) == [scalar |-> TRUE, bytes |-> bytes]

DataItem(bytes) == [scalar |-> FALSE, bytes |-> bytes]

\* The calls items[lo..hi] made in order on buffer b.  The range is halved,
\* so that the evaluation nests by halvings and not by calls.
RECURSIVE AppendRange(_, _, _, _)
AppendRange(b, items, lo, hi) ==
    IF lo > hi THEN b
    ELSE IF lo = hi
    THEN (IF items[lo].scalar THEN Buffer_appendScalar(b, items[lo].bytes)
          ELSE Buffer_append(b, items[lo].bytes))
    ELSE (CHOOSE the \in {
        AppendRange(left, items, ((lo + hi) \div 2) + 1, hi) :
        left \in {AppendRange(b, items, lo, (lo + hi) \div 2)} } : TRUE)

AppendItems(b, items, i) == AppendRange(b, items, i, Len(items))

\* The lambda getStringIndex of SerializeProject: std::find over names,
\* ok = FALSE for the logic_error.
getStringIndex(names, name) ==
    IF Contains(names, name)
    THEN [ok |-> TRUE, index |-> (IndexOf(names, name) - 1) % 65536]
    ELSE [ok |-> FALSE, index |-> 0]

\* The body of the std::visit lambda of WriteNode for one attribute.
WriteAttr(attrNameIndex, value) ==
    LET idx == ScalarItem(EncodeUnsigned(attrNameIndex, 2))
    IN CASE value.kind = "bool" ->
                << ScalarItem(<<FT_Bool>>), idx, ScalarItem(value.bytes) >>
         [] value.kind = "int32" ->
                << ScalarItem(<<FT_Int>>), idx, ScalarItem(value.bytes) >>
         [] value.kind = "uint32" ->
                << ScalarItem(<<FT_SizeT>>), idx, ScalarItem(value.bytes) >>
         [] value.kind = "int64" ->
                << ScalarItem(<<FT_LongLong>>), idx, ScalarItem(value.bytes) >>
         [] value.kind = "size_t" ->
                << ScalarItem(<<FT_SizeT>>), idx, ScalarItem(SubSeq(value.bytes, 1, 4)) >>
         [] value.kind = "float" ->
                << ScalarItem(<<FT_Float>>), idx, ScalarItem(value.bytes),
                   ScalarItem(EncodeSigned(7, 4)) >>
         [] value.kind = "double" ->
                << ScalarItem(<<FT_Double>>), idx, ScalarItem(value.bytes),
                   ScalarItem(EncodeSigned(19, 4)) >>
         [] value.kind = "string" ->
                << ScalarItem(<<FT_String>>), idx,
                   ScalarItem(EncodeUnsigned(Len(value.bytes), 4)), DataItem(value.bytes) >>

RECURSIVE WriteAttrs(_, _, _)
WriteAttrs(names, attrs, i) ==
    IF i > Len(attrs) THEN [ok |-> TRUE, items |-> <<>>]
    ELSE (CHOOSE the \in {
        IF ~attrNameIndex.ok \/ ~rest.ok THEN [ok |-> FALSE, items |-> <<>>]
        ELSE [ok |-> TRUE,
              items |-> WriteAttr(attrNameIndex.index, attrs[i].Value) \o rest.items] :
        attrNameIndex \in {getStringIndex(names, attrs[i].Name)},
        rest \in {WriteAttrs(names, attrs, i + 1)} } : TRUE)

RECURSIVE WriteNode(_, _, _)
RECURSIVE WriteChildren(_, _, _, _)
\* void WriteNode(indexLookup, buffer, node): the appends it makes,
\* ok = FALSE when indexLookup throws.
WriteNode(names, nodes, n) ==
    (CHOOSE the \in {
        IF ~tagIndex.ok \/ ~attrs.ok \/ ~children.ok THEN [ok |-> FALSE, items |-> <<>>]
        ELSE [ok |-> TRUE,
              items |-> << ScalarItem(<<FT_StartTag>>),
                           ScalarItem(EncodeUnsigned(tagIndex.index, 2)) >>
                        \o attrs.items
                        \o (IF nodes[n].Data # <<>>
                            THEN << ScalarItem(<<FT_Data>>),
                                    ScalarItem(EncodeUnsigned(Len(nodes[n].Data), 4)),
                                    DataItem(nodes[n].Data) >>
                            ELSE <<>>)
                        \o children.items
                        \o << ScalarItem(<<FT_EndTag>>),
                              ScalarItem(EncodeUnsigned(tagIndex.index, 2)) >>] :
        tagIndex \in {getStringIndex(names, nodes[n].TagName)},
        attrs \in {WriteAttrs(names, nodes[n].Attributes, 1)},
        children \in {WriteChildren(names, nodes, nodes[n].Children, 1)} } : TRUE)

WriteChildren(names, nodes, children, i) ==
    IF i > Len(children) THEN [ok |-> TRUE, items |-> <<>>]
    ELSE (CHOOSE the \in {
        IF ~child.ok \/ ~rest.ok THEN [ok |-> FALSE, items |-> <<>>]
        ELSE [ok |-> TRUE, items |-> child.items \o rest.items] :
        child \in {WriteNode(names, nodes, children[i])},
        rest \in {WriteChildren(names, nodes, children, i + 1)} } : TRUE)

\* The loop of SerializeProject over names.
RECURSIVE WriteNames(_, _)
WriteNames(names, stringIndex) ==
    IF stringIndex >= Len(names) THEN <<>>
    ELSE << ScalarItem(<<FT_Name>>),
            ScalarItem(EncodeUnsigned(stringIndex % 65536, 2)),
            ScalarItem(EncodeUnsigned(Len(names[stringIndex + 1]) % 65536, 2)),
            DataItem(names[stringIndex + 1]) >>
         \o WriteNames(names, stringIndex + 1)

\* BinaryXMLConverter::SerializeProject(names, project): the two buffers,
\* ok = FALSE when it throws.  project is the index of the root node; the
\* null pointer is dereferenced (ub).
SerializeProject(names, nodes, project) ==
    IF project = 0 THEN [status |-> "ub", first |-> NewBuffer, second |-> NewBuffer]
    ELSE (CHOOSE the \in {
        IF ~doc.ok THEN [status |-> "throw", first |-> first, second |-> NewBuffer]
        ELSE [status |-> "ok", first |-> first,
              second |-> AppendItems(NewBuffer, doc.items, 1)] :
        first \in {AppendItems(NewBuffer,
                               << ScalarItem(<<FT_CharSize>>), ScalarItem(<<1>>) >>
                                   \o WriteNames(names, 0), 1)},
        doc \in {WriteNode(names, nodes, project)} } : TRUE)

(***************************************************************************)
(* ReadProjectBlob (ProjectBlobReader.cpp): the dict blob and then the doc *)
(* blob appended to one Buffer, each in pieces of at most ReadPiece bytes. *)
(***************************************************************************)
ReadPiece == 8 * 1024

RECURSIVE readToBuffer(_, _)
readToBuffer(b, blob) ==
    IF blob = <<>> THEN b
    ELSE LET chunkSize == Min(Len(blob), ReadPiece)
         IN readToBuffer(Buffer_append(b, SubSeq(blob, 1, chunkSize)),
                         SubSeq(blob, chunkSize + 1, Len(blob)))

ReadProjectBlob(dict, doc) == readToBuffer(readToBuffer(NewBuffer, dict), doc)

(***************************************************************************)
(* The tree below a node as a value: tag name, attributes in order with    *)
(* name, kind and value, character data, children in order.                *)
(***************************************************************************)
RECURSIVE TreeOf(_, _)
TreeOf(nodes, n) ==
    [TagName |-> nodes[n].TagName,
     Attributes |-> nodes[n].Attributes,
     Data |-> nodes[n].Data,
     Children |-> [i \in 1..Len(nodes[n].Children) |-> TreeOf(nodes, nodes[n].Children[i])]]

(***************************************************************************)
(* The file system and SQLite.                                             *)
(*                                                                         *)
(* A database file is a record: the tables it has, the row with id 1 of    *)
(* autosave and of project (dict and doc blobs), the rows of sampleblocks  *)
(* as a function from blockid to [sampleformat, samples], whether reading  *)
(* it fails with SQLITE_CORRUPT, what PRAGMA integrity_check finds and the  *)
(* rows left on pages no table owns (lost).                                *)
(* sys is the file system (a function from the two paths to files) and     *)
(* the log of the statements executed that change a database, each with    *)
(* the path and the mode of the connection it ran on.                      *)
(***************************************************************************)
ProjectPath == "project.aup3"

\* mWritablePath: mProjectPath with replace_extension("recovered.aup3")
WritablePath == "project.recovered.aup3"

NoDbFile == [exists |-> FALSE]

NoRow == [present |-> FALSE]

Row(dict, doc) == [present |-> TRUE, dict |-> dict, doc |-> doc]

NoBlocks == [id \in {} |-> 0]

\* The file sqlite3_open creates with OPEN_CREATE.
EmptyDbFile ==
    [exists |-> TRUE, corrupt |-> FALSE, integrity |-> TRUE, user_version |-> 0, tables |-> {},
     autosave |-> NoRow, project |-> NoRow, sampleblocks |-> NoBlocks, lost |-> <<>>]

NoConnection == [open |-> FALSE]

\* SQLite::Database(path, flags); the default flags are OPEN_READONLY.
Connection(path, mode) == [open |-> TRUE, path |-> path, mode |-> mode]

\* The effect of a statement on the file it runs on.
Sql_apply(file, stmt) ==
    CASE stmt.sql = "DELETE FROM autosave WHERE id = 1" ->
             [file EXCEPT !.autosave = NoRow]
      [] stmt.sql \in {"INSERT OR REPLACE INTO autosave(id, dict, doc)", "INSERT INTO autosave"} ->
             [file EXCEPT !.autosave = Row(stmt.dict, stmt.doc)]
      [] stmt.sql \in {"INSERT OR REPLACE INTO project(id, dict, doc)", "INSERT INTO project"} ->
             [file EXCEPT !.project = Row(stmt.dict, stmt.doc)]
      [] stmt.sql = "DELETE FROM sampleblocks WHERE blockid = ?" ->
             [file EXCEPT !.sampleblocks =
                  [id \in (DOMAIN file.sampleblocks) \ {stmt.blockid} |-> file.sampleblocks[id]]]
      [] stmt.sql \in {"INSERT OR REPLACE INTO sampleblocks", "INSERT INTO sampleblocks"} ->
             [file EXCEPT !.sampleblocks =
                  [id \in (DOMAIN file.sampleblocks) \cup {stmt.blockid} |->
                       IF id = stmt.blockid THEN stmt.row ELSE file.sampleblocks[id]]]
      [] stmt.sql = "CREATE TABLE" ->
             [file EXCEPT !.tables = @ \cup {stmt.table}]
      [] stmt.sql = "PRAGMA user_version" ->
             [file EXCEPT !.user_version = stmt.version]
      [] OTHER -> file    \* BEGIN, COMMIT, VACUUM, PRAGMA

\* The table a statement needs.
Sql_table(stmt) ==
    CASE stmt.sql \in {"DELETE FROM autosave WHERE id = 1", "INSERT INTO autosave",
                       "INSERT OR REPLACE INTO autosave(id, dict, doc)"} -> {"autosave"}
      [] stmt.sql \in {"INSERT OR REPLACE INTO project(id, dict, doc)",
                       "INSERT INTO project"} -> {"project"}
      [] stmt.sql \in {"DELETE FROM sampleblocks WHERE blockid = ?", "INSERT INTO sampleblocks",
                       "INSERT OR REPLACE INTO sampleblocks"} -> {"sampleblocks"}
      [] OTHER -> {}

\* An INSERT without OR REPLACE of a key the table has already.
Sql_conflict(file, stmt) ==
    CASE stmt.sql = "INSERT INTO autosave" -> file.autosave.present
      [] stmt.sql = "INSERT INTO project" -> file.project.present
      [] stmt.sql = "INSERT INTO sampleblocks" -> stmt.blockid \in DOMAIN file.sampleblocks
      [] OTHER -> FALSE

\* Database::exec / Statement::exec of a statement that changes the
\* database: it is logged with its connection; ok = FALSE when SQLite
\* reports an error (a read-only connection, a missing table, a corrupt
\* file, a text that is no statement, a key that exists).
Sql_exec(sys, conn, stmt) ==
    (CHOOSE the \in {
        IF conn.mode # "rw" \/ ~file.exists \/ file.corrupt \/ stmt.sql = "syntax error"
           \/ ~(Sql_table(stmt) \subseteq file.tables) \/ Sql_conflict(file, stmt)
        THEN [ok |-> FALSE, sys |-> logged]
        ELSE [ok |-> TRUE,
              sys |-> [logged EXCEPT !.files[conn.path] = Sql_apply(file, stmt)]] :
        logged \in {[sys EXCEPT !.log = Append(@, [sql |-> stmt.sql, path |-> conn.path,
                                                   mode |-> conn.mode])]},
        file \in {sys.files[conn.path]} } : TRUE)

\* A SELECT on `table`: ok = FALSE when it throws.
Sql_canRead(sys, conn, table) ==
    LET file == sys.files[conn.path]
    IN file.exists /\ ~file.corrupt /\ table \in file.tables

(***************************************************************************)
(* AudacityDatabase (AudacityDatabase.cpp).  Every operation returns the   *)
(* object and the system afterwards, and ok = FALSE when it throws.        *)
(***************************************************************************)
MaxSupportedVersion == 50397952    \* (3 << 24) + (1 << 16) + (3 << 8) + 0

\* void AudacityDatabase::removeOldFiles()
AudacityDatabase_removeOldFiles(sys) ==
    [sys EXCEPT !.files[WritablePath] = NoDbFile]

\* A reopen that opens the project file itself for writing.
AudacityDatabase_reopenReadonlyAsWritable_inplace(db, sys) ==
    IF ~db.mReadOnly THEN [ok |-> TRUE, db |-> db, sys |-> sys]
    ELSE [ok |-> TRUE,
          db |-> [db EXCEPT !.mDatabase = Connection(ProjectPath, "rw"), !.mReadOnly = FALSE],
          sys |-> sys]

\* void AudacityDatabase::reopenReadonlyAsWritable()
AudacityDatabase_reopenReadonlyAsWritable(db, sys) ==
    IF ~db.mReadOnly THEN [ok |-> TRUE, db |-> db, sys |-> sys]
    ELSE (CHOOSE the \in {
        IF ~s1.files[ProjectPath].exists THEN [ok |-> FALSE, db |-> db, sys |-> s1]
        ELSE [ok |-> TRUE,
              db |-> [db EXCEPT !.mDatabase = Connection(WritablePath, "rw"),
                                !.mReadOnly = FALSE],
              sys |-> [s1 EXCEPT !.files[WritablePath] = s1.files[ProjectPath]]] :
        s1 \in {AudacityDatabase_removeOldFiles(sys)} } : TRUE)

\* The ids of a set in increasing order.
RECURSIVE Ascending(_)
Ascending(ids) ==
    IF ids = {} THEN <<>>
    ELSE (CHOOSE the \in {
        <<least>> \o Ascending(ids \ {least}) :
        least \in {CHOOSE x \in ids : \A y \in ids : x <= y} } : TRUE)

\* "BEGIN"
Txt_BEGIN == <<66, 69, 71, 73, 78>>

\* "COMMIT"
Txt_COMMIT == <<67, 79, 77, 77, 73, 84>>

\* "lost_and_found"
Txt_lost_and_found == <<108, 111, 115, 116, 95, 97, 110, 100, 95, 102, 111, 117, 110, 100>>

\* "CREATE"
Txt_CREATE == <<67, 82, 69, 65, 84, 69>>

\* "INSERT"
Txt_INSERT == <<73, 78, 83, 69, 82, 84>>

\* "NULL"
Txt_NULL == <<78, 85, 76, 76>>

\* "NULL,"
Txt_NULL_comma == <<78, 85, 76, 76, 44>>

\* " NULL,"
Txt_space_NULL_comma == <<32, 78, 85, 76, 76, 44>>

\* "INSERT OR REPLACE INTO sampleblocks (blockid, s..."
Txt_replace == <<73, 78, 83, 69, 82, 84, 32, 79, 82, 32, 82, 69, 80, 76, 65, 67, 69, 32, 73, 78,
    84, 79, 32, 115, 97, 109, 112, 108, 101, 98, 108, 111, 99, 107, 115, 32, 40, 98, 108, 111,
    99, 107, 105, 100, 44, 32, 115, 97, 109, 112, 108, 101, 102, 111, 114, 109, 97, 116, 44, 32,
    115, 117, 109, 109, 105, 110, 44, 32, 115, 117, 109, 109, 97, 120, 44, 32, 115, 117, 109,
    114, 109, 115, 44, 32, 115, 117, 109, 109, 97, 114, 121, 50, 53, 54, 44, 32, 115, 117, 109,
    109, 97, 114, 121, 54, 52, 107, 44, 32, 115, 97, 109, 112, 108, 101, 115, 41, 32, 86, 65,
    76, 85, 69, 83, 40>>

\* "BEGIN;"
Txt_begin_line == <<66, 69, 71, 73, 78, 59>>

\* "COMMIT;"
Txt_commit_line == <<67, 79, 77, 77, 73, 84, 59>>

\* "PRAGMA writable_schema = on;"
Txt_schema_on == <<80, 82, 65, 71, 77, 65, 32, 119, 114, 105, 116, 97, 98, 108, 101, 95, 115,
    99, 104, 101, 109, 97, 32, 61, 32, 111, 110, 59>>

\* "PRAGMA writable_schema = off;"
Txt_schema_off == <<80, 82, 65, 71, 77, 65, 32, 119, 114, 105, 116, 97, 98, 108, 101, 95, 115,
    99, 104, 101, 109, 97, 32, 61, 32, 111, 102, 102, 59>>

\* "PRAGMA"
Txt_PRAGMA == <<80, 82, 65, 71, 77, 65>>

\* "CREATE TABLE IF NOT EXISTS "
Txt_create_table == <<67, 82, 69, 65, 84, 69, 32, 84, 65, 66, 76, 69, 32, 73, 70, 32, 78, 79,
    84, 32, 69, 88, 73, 83, 84, 83, 32>>

\* "CREATE TABLE "lost_and_found"(rootpgno INTEGER,..."
Txt_create_lost == <<67, 82, 69, 65, 84, 69, 32, 84, 65, 66, 76, 69, 32, 34, 108, 111, 115, 116,
    95, 97, 110, 100, 95, 102, 111, 117, 110, 100, 34, 40, 114, 111, 111, 116, 112, 103, 110,
    111, 32, 73, 78, 84, 69, 71, 69, 82, 44, 32, 112, 103, 110, 111, 32, 73, 78, 84, 69, 71, 69,
    82, 44, 32, 110, 102, 105, 101, 108, 100, 32, 73, 78, 84, 69, 71, 69, 82, 44, 32, 105, 100,
    32, 73, 78, 84, 69, 71, 69, 82, 44, 32, 99, 48, 44, 32, 99, 49, 44, 32, 99, 50, 44, 32, 99,
    51, 44, 32, 99, 52, 44, 32, 99, 53, 44, 32, 99, 54, 44, 32, 99, 55, 41, 59>>

\* "INSERT INTO "lost_and_found" VALUES("
Txt_insert_lost == <<73, 78, 83, 69, 82, 84, 32, 73, 78, 84, 79, 32, 34, 108, 111, 115, 116, 95,
    97, 110, 100, 95, 102, 111, 117, 110, 100, 34, 32, 86, 65, 76, 85, 69, 83, 40>>

\* "INSERT INTO '"
Txt_insert_into == <<73, 78, 83, 69, 82, 84, 32, 73, 78, 84, 79, 32, 39>>

\* "' VALUES("
Txt_values == <<39, 32, 86, 65, 76, 85, 69, 83, 40>>

\* "(id INTEGER PRIMARY KEY, dict BLOB, doc BLOB);"
Txt_columns_rows == <<40, 105, 100, 32, 73, 78, 84, 69, 71, 69, 82, 32, 80, 82, 73, 77, 65, 82,
    89, 32, 75, 69, 89, 44, 32, 100, 105, 99, 116, 32, 66, 76, 79, 66, 44, 32, 100, 111, 99, 32,
    66, 76, 79, 66, 41, 59>>

\* "(blockid INTEGER PRIMARY KEY AUTOINCREMENT, sam..."
Txt_columns_blocks == <<40, 98, 108, 111, 99, 107, 105, 100, 32, 73, 78, 84, 69, 71, 69, 82, 32,
    80, 82, 73, 77, 65, 82, 89, 32, 75, 69, 89, 32, 65, 85, 84, 79, 73, 78, 67, 82, 69, 77, 69,
    78, 84, 44, 32, 115, 97, 109, 112, 108, 101, 102, 111, 114, 109, 97, 116, 32, 73, 78, 84,
    69, 71, 69, 82, 44, 32, 115, 117, 109, 109, 105, 110, 32, 82, 69, 65, 76, 44, 32, 115, 117,
    109, 109, 97, 120, 32, 82, 69, 65, 76, 44, 32, 115, 117, 109, 114, 109, 115, 32, 82, 69, 65,
    76, 44, 32, 115, 117, 109, 109, 97, 114, 121, 50, 53, 54, 32, 66, 76, 79, 66, 44, 32, 115,
    117, 109, 109, 97, 114, 121, 54, 52, 107, 32, 66, 76, 79, 66, 44, 32, 115, 97, 109, 112,
    108, 101, 115, 32, 66, 76, 79, 66, 41, 59>>

\* "autosave"
Txt_autosave == <<97, 117, 116, 111, 115, 97, 118, 101>>

\* "project"
Txt_project == <<112, 114, 111, 106, 101, 99, 116>>

\* "sampleblocks"
Txt_sampleblocks == <<115, 97, 109, 112, 108, 101, 98, 108, 111, 99, 107, 115>>

\* ");"
Txt_close == <<41, 59>>

\* ", "
Txt_sep == <<44, 32>>

(***************************************************************************)
(* std::string as the recovery loop uses it.  A line is its bytes;         *)
(* positions count from 0 and std::string::npos is Npos, so that           *)
(* npos + 1 = 0 and npos + 5 = 4 as in size_t arithmetic.                  *)
(***************************************************************************)
Npos == 0 - 1

\* string[i]; string[length()] is the terminating '\0'.
CharAt(string, i) == IF i < Len(string) THEN string[i + 1] ELSE 0

\* string.data() + offset read as a C string.
Str_from(string, offset) == SubSeq(string, offset + 1, Len(string))

\* string.find(pattern, pos)
Str_find(string, pattern, pos) ==
    (CHOOSE the \in {
        IF hits = {} THEN Npos ELSE CHOOSE i \in hits : \A j \in hits : i <= j :
        hits \in {{ i \in pos..(Len(string) - Len(pattern)) :
                       \A k \in 1..Len(pattern) : string[i + k] = pattern[k] }} } : TRUE)

\* std::isspace in the "C" locale
IsSpace(c) == c = 32 \/ c \in 9..13

\* std::numeric_limits<int>::max()
IntMax == (1024 * 1024 * 1024 - 1) * 2 + 1

\* The digits of std::from_chars: the value so far, with the sign applied
\* digit by digit, and range = FALSE once it leaves the range of int.
RECURSIVE from_chars_digits(_, _, _, _, _)
from_chars_digits(string, i, sign, acc, range) ==
    IF ~IsDigit(CharAt(string, i)) THEN [ptr |-> i, value |-> acc, range |-> range]
    ELSE (CHOOSE the \in {
        IF ~range \/ sign * acc > IntMax \div 10
           \/ (sign * acc = IntMax \div 10 /\ d > (IF sign < 0 THEN 8 ELSE 7))
        THEN from_chars_digits(string, i + 1, sign, acc, FALSE)
        ELSE from_chars_digits(string, i + 1, sign, acc * 10 + sign * d, TRUE) :
        d \in {CharAt(string, i) - 48} } : TRUE)

\* std::from_chars(first, last, int&): an optional '-', then digits.
\* ec is "" on success, else the errc.
from_chars(string, offset) ==
    (CHOOSE the \in {
        IF ~IsDigit(CharAt(string, first))
        THEN [ptr |-> offset, value |-> 0, ec |-> "invalid_argument"]
        ELSE (CHOOSE the \in {
            [ptr |-> r.ptr, value |-> r.value,
             ec |-> IF r.range THEN "" ELSE "result_out_of_range"] :
            r \in {from_chars_digits(string, first, IF first > offset THEN 0 - 1 ELSE 1,
                                     0, TRUE)} } : TRUE) :
        first \in {IF CharAt(string, offset) = 45 THEN offset + 1 ELSE offset} } : TRUE)

RECURSIVE SkipSpaces(_, _)
SkipSpaces(string, offset) ==
    IF IsSpace(CharAt(string, offset)) THEN SkipSpaces(string, offset + 1) ELSE offset

\* template<typename T> size_t readInt(string, offset, T& output) with
\* T = int: ok = FALSE when it throws "Failed to convert ... to integer".
readInt(string, offset) ==
    (CHOOSE the \in {
        [ok |-> r.ec = "", pos |-> r.ptr, output |-> r.value] :
        r \in { from_chars(string, start) : start \in {SkipSpaces(string, offset)} } } : TRUE)

\* The lost_and_found branch of the loop once n_fields has been read:
\* the rowid, the NULL token after it, and the new line.
RewriteLostAndFound(line, colsEnd) ==
    (CHOOSE the \in {
        IF first.ok
        THEN (CHOOSE the \in {
            [op |-> "exec",
             line |-> Txt_replace \o FormatInt(first.output) \o <<44>>
                        \o Str_from(line, formatPosition)] :
            formatPosition \in {Str_find(line, Txt_NULL_comma, first.pos) + 5} } : TRUE)
        ELSE (CHOOSE the \in {
            IF formatPosition # colsEnd + 1
            THEN [op |-> "throw", what |-> "Unexpected token in SQLStatement"]
            ELSE (CHOOSE the \in {
                IF ~second.ok THEN [op |-> "throw", what |-> "Failed to convert"]
                ELSE [op |-> "exec",
                      line |-> Txt_replace \o FormatInt(second.output) \o <<44>>
                                 \o Str_from(line, second.pos + 1)] :
                second \in {readInt(line, formatPosition + 5)} } : TRUE) :
            formatPosition \in {Str_find(line, Txt_space_NULL_comma, colsEnd + 1)} } : TRUE) :
        first \in {readInt(line, colsEnd + 1)} } : TRUE)

\* The body of the while loop up to the exec: what becomes of one line.
RecoverLine(line) ==
    IF Str_find(line, Txt_BEGIN, 0) # Npos THEN [op |-> "skip"]
    ELSE IF Str_find(line, Txt_COMMIT, 0) # Npos THEN [op |-> "skip"]
    ELSE IF Str_find(line, Txt_lost_and_found, 0) = Npos THEN [op |-> "exec", line |-> line]
    ELSE IF Str_find(line, Txt_CREATE, 0) # Npos THEN [op |-> "skip"]
    ELSE IF Str_find(line, Txt_INSERT, 0) = Npos
    THEN [op |-> "throw", what |-> "Unsupported lost_and_found query"]
    ELSE (CHOOSE the \in {
        IF ~cols.ok THEN [op |-> "throw", what |-> "Failed to convert"]
        ELSE IF cols.output # 8
        THEN [op |-> "throw", what |-> "Unexpected lost_and_found structure"]
        ELSE RewriteLostAndFound(line, cols.pos) :
        cols \in { readInt(line, secondComma + 1) :
                      secondComma \in { Str_find(line, <<44>>, firstComma + 1) :
                          firstComma \in { Str_find(line, <<44>>, openingBracketPosition + 1) :
                              openingBracketPosition \in {Str_find(line, <<40>>, 0)} } } } } : TRUE)

(***************************************************************************)
(* The text sqlite3 prints and the text SQLite is given.                   *)
(***************************************************************************)
\* X'...': a blob as an SQL literal
BlobLiteral(bytes) ==
    <<88, 39>>
      \o [i \in 1..(2 * Len(bytes)) |->
              HexDigit(IF i % 2 = 1 THEN bytes[(i + 1) \div 2] \div 16
                       ELSE bytes[i \div 2] % 16)]
      \o <<39>>

RECURSIVE JoinValues(_)
JoinValues(values) ==
    IF Len(values) = 0 THEN <<>>
    ELSE IF Len(values) = 1 THEN values[1]
    ELSE values[1] \o Txt_sep \o JoinValues(Tail(values))

\* INSERT INTO '<table>' VALUES(...);
InsertLine(table, values) ==
    Txt_insert_into \o table \o Txt_values \o JoinValues(values) \o Txt_close

\* The values of a row of sampleblocks: blockid, sampleformat, summin,
\* summax, sumrms, summary256, summary64k, samples.
BlockValues(idText, row) ==
    <<idText, FormatInt(row.sampleformat), <<48>>, <<48>>, <<48>>,
      BlobLiteral(<<>>), BlobLiteral(<<>>), BlobLiteral(row.samples)>>

\* A row found on a page no table owns: INSERT INTO "lost_and_found"
\* VALUES(rootpgno, pgno, nfield, id, c0, c1, ...);
LostLine(lost) ==
    Txt_insert_lost
      \o JoinValues(<<FormatInt(lost.rootpgno), FormatInt(lost.pgno), FormatInt(lost.nfield),
                      lost.id>> \o lost.fields)
      \o Txt_close

TableText(table) ==
    CASE table = "autosave" -> Txt_autosave
      [] table = "project" -> Txt_project
      [] table = "sampleblocks" -> Txt_sampleblocks

\* What "sqlite3 <mProjectPath> .recover" prints for a file, line by line.
RecoverOutput(file) ==
    (CHOOSE the \in {
        <<Txt_begin_line, Txt_schema_on>>
          \o [i \in 1..Len(tables) |->
                  Txt_create_table
                    \o TableText(<<"autosave", "project", "sampleblocks">>[tables[i]])
                    \o (IF tables[i] = 3 THEN Txt_columns_blocks ELSE Txt_columns_rows)]
          \o (IF file.autosave.present /\ "autosave" \in file.tables
              THEN << InsertLine(Txt_autosave,
                          <<FormatInt(1), BlobLiteral(file.autosave.dict),
                            BlobLiteral(file.autosave.doc)>>) >>
              ELSE <<>>)
          \o (IF file.project.present /\ "project" \in file.tables
              THEN << InsertLine(Txt_project,
                          <<FormatInt(1), BlobLiteral(file.project.dict),
                            BlobLiteral(file.project.doc)>>) >>
              ELSE <<>>)
          \o (IF "sampleblocks" \in file.tables
              THEN [i \in 1..Len(ids) |->
                       InsertLine(Txt_sampleblocks,
                           BlockValues(FormatInt(ids[i]), file.sampleblocks[ids[i]]))]
              ELSE <<>>)
          \o (IF Len(file.lost) = 0 THEN <<>>
              ELSE <<Txt_create_lost>> \o [i \in 1..Len(file.lost) |-> LostLine(file.lost[i])])
          \o <<Txt_schema_off, Txt_commit_line>> :
        tables \in {Ascending({CASE t = "autosave" -> 1 [] t = "project" -> 2 [] OTHER -> 3 :
                               t \in file.tables})},
        ids \in {Ascending(DOMAIN file.sampleblocks)} } : TRUE)

\* The exit code of the sqlite3 process.
RecoverExitCode(file) == IF file.exists THEN 0 ELSE 1

StartsWith(string, prefix) ==
    Len(string) >= Len(prefix) /\ SubSeq(string, 1, Len(prefix)) = prefix

EndsWith(string, suffix) ==
    Len(string) >= Len(suffix)
    /\ SubSeq(string, Len(string) - Len(suffix) + 1, Len(string)) = suffix

\* The pieces of a text between its commas, without their leading spaces.
SplitValues(text) ==
    (CHOOSE the \in {
        [k \in 1..(Len(cuts) - 1) |->
             (CHOOSE piece \in { Str_from(raw, SkipSpaces(raw, 0)) :
                                 raw \in {SubSeq(text, cuts[k] + 1, cuts[k + 1] - 1)} } : TRUE)] :
        cuts \in {<<0>> \o Ascending({ i \in 1..Len(text) : text[i] = 44 })
                    \o <<Len(text) + 1>>} } : TRUE)

\* An integer literal: ok = FALSE when the token is not one.
IntToken(token) ==
    (CHOOSE the \in {
        [ok |-> r.ec = "" /\ r.ptr = Len(token), value |-> r.value] :
        r \in {from_chars(token, 0)} } : TRUE)

HexValue(c) == IF c <= 57 THEN c - 48 ELSE IF c <= 70 THEN c - 55 ELSE c - 87

IsHex(c) == c \in 48..57 \/ c \in 65..70 \/ c \in 97..102

\* A blob literal X'...': ok = FALSE when the token is not one.
BlobToken(token) ==
    IF Len(token) < 3 \/ Len(token) % 2 = 0 \/ token[1] \notin {88, 120} \/ token[2] # 39
       \/ token[Len(token)] # 39 \/ \E i \in 3..(Len(token) - 1) : ~IsHex(token[i])
    THEN [ok |-> FALSE, value |-> <<>>]
    ELSE [ok |-> TRUE,
          value |-> [i \in 1..((Len(token) - 3) \div 2) |->
                        16 * HexValue(token[2 * i + 1]) + HexValue(token[2 * i + 2])]]

SyntaxError == [sql |-> "syntax error"]

\* The statement of a row of sampleblocks from its eight values.
BlockStatement(sql, values) ==
    IF Len(values) # 8 THEN SyntaxError
    ELSE (CHOOSE the \in {
        IF ~id.ok \/ ~format.ok \/ ~samples.ok THEN SyntaxError
        ELSE [sql |-> sql, blockid |-> id.value,
              row |-> [sampleformat |-> format.value, samples |-> samples.value]] :
        id \in {IntToken(values[1])},
        format \in {IntToken(values[2])},
        samples \in {BlobToken(values[8])} } : TRUE)

\* The statement of a row of autosave or project from its three values.
RowStatement(sql, values) ==
    IF Len(values) # 3 THEN SyntaxError
    ELSE (CHOOSE the \in {
        IF ~IntToken(values[1]).ok \/ ~dict.ok \/ ~doc.ok THEN SyntaxError
        ELSE [sql |-> sql, dict |-> dict.value, doc |-> doc.value] :
        dict \in {BlobToken(values[2])},
        doc \in {BlobToken(values[3])} } : TRUE)

\* What SQLite makes of the text of a statement.
Sql_parse(text) ==
    IF StartsWith(text, Txt_PRAGMA) THEN [sql |-> "PRAGMA"]
    ELSE IF StartsWith(text, Txt_create_table \o Txt_autosave)
    THEN [sql |-> "CREATE TABLE", table |-> "autosave"]
    ELSE IF StartsWith(text, Txt_create_table \o Txt_project)
    THEN [sql |-> "CREATE TABLE", table |-> "project"]
    ELSE IF StartsWith(text, Txt_create_table \o Txt_sampleblocks)
    THEN [sql |-> "CREATE TABLE", table |-> "sampleblocks"]
    ELSE IF ~EndsWith(text, Txt_close) THEN SyntaxError
    ELSE IF StartsWith(text, Txt_replace)
    THEN (CHOOSE the \in { BlockStatement("INSERT OR REPLACE INTO sampleblocks", values) :
             values \in { SplitValues(inner) :
                 inner \in {SubSeq(text, Len(Txt_replace) + 1, Len(text) - 2)} } } : TRUE)
    ELSE IF StartsWith(text, Txt_insert_into \o Txt_sampleblocks \o Txt_values)
    THEN (CHOOSE the \in { BlockStatement("INSERT INTO sampleblocks", values) :
             values \in { SplitValues(inner) :
                 inner \in {SubSeq(text, Len(Txt_insert_into \o Txt_sampleblocks \o Txt_values) + 1,
                                   Len(text) - 2)} } } : TRUE)
    ELSE IF StartsWith(text, Txt_insert_into \o Txt_autosave \o Txt_values)
    THEN (CHOOSE the \in { RowStatement("INSERT INTO autosave", values) :
             values \in { SplitValues(inner) :
                 inner \in {SubSeq(text, Len(Txt_insert_into \o Txt_autosave \o Txt_values) + 1,
                                   Len(text) - 2)} } } : TRUE)
    ELSE IF StartsWith(text, Txt_insert_into \o Txt_project \o Txt_values)
    THEN (CHOOSE the \in { RowStatement("INSERT INTO project", values) :
             values \in { SplitValues(inner) :
                 inner \in {SubSeq(text, Len(Txt_insert_into \o Txt_project \o Txt_values) + 1,
                                   Len(text) - 2)} } } : TRUE)
    ELSE SyntaxError

\* The erase of the trailing white space of a line (std::find_if from
\* rbegin for the last character that is not a space).
TrimRight(line) ==
    IF \A i \in 1..Len(line) : IsSpace(line[i]) THEN <<>>
    ELSE SubSeq(line, 1, CHOOSE i \in 1..Len(line) :
                             ~IsSpace(line[i]) /\ \A j \in (i + 1)..Len(line) : IsSpace(line[j]))

\* The while loop of recoverDatabase over the lines sqlite3 prints; it
\* ends at the first empty line.  `catches` tells the two forms of the
\* loop apart: recoveredDB->exec(line) inside try/catch of
\* SQLite::Exception after the line's trailing white space is erased, or
\* the bare call.  executed is the text given to exec, line by line.
RECURSIVE ReplayLines(_, _, _, _, _, _)
ReplayLines(sys, recoveredDB, lines, i, executed, catches) ==
    IF i > Len(lines) \/ lines[i] = <<>>
    THEN [ok |-> TRUE, sys |-> sys, executed |-> executed]
    ELSE (CHOOSE the \in {
        IF r.op = "skip" THEN ReplayLines(sys, recoveredDB, lines, i + 1, executed, catches)
        ELSE IF r.op = "throw"
        THEN [ok |-> FALSE, sys |-> sys, executed |-> executed, what |-> r.what]
        ELSE (CHOOSE the \in {
            IF ~ex.ok /\ ~catches
            THEN [ok |-> FALSE, sys |-> ex.sys, what |-> "SQLite::Exception",
                  executed |-> Append(executed, [line |-> text, ok |-> FALSE])]
            ELSE ReplayLines(ex.sys, recoveredDB, lines, i + 1,
                             Append(executed, [line |-> text, ok |-> ex.ok]), catches) :
            text \in {IF catches THEN TrimRight(r.line) ELSE r.line},
            ex \in { Sql_exec(sys, recoveredDB, stmt) :
                       stmt \in { Sql_parse(trimmed) :
                           trimmed \in {IF catches THEN TrimRight(r.line) ELSE r.line} } } } : TRUE) :
        r \in { RecoverLine(line) : line \in {lines[i]} } } : TRUE)

\* The statements of recoverDatabase after the loop.
RecoverFinish(db, sys, recoveredDB) ==
    Sql_exec(
      Sql_exec(
        Sql_exec(
          Sql_exec(sys, recoveredDB, [sql |-> "PRAGMA locking_mode ..."]).sys,
          recoveredDB, [sql |-> "PRAGMA application_id"]).sys,
        recoveredDB, [sql |-> "PRAGMA user_version", version |-> db.mProjectVersion]).sys,
      recoveredDB, [sql |-> "VACUUM"]).sys

\* mDatabase = {}; removeOldFiles(); the new database at mWritablePath and
\* its first pragmas.
RecoverStart(sys) ==
    Sql_exec([AudacityDatabase_removeOldFiles(sys) EXCEPT !.files[WritablePath] = EmptyDbFile],
             Connection(WritablePath, "rw"), [sql |-> "PRAGMA page_size ...; VACUUM"]).sys

\* void AudacityDatabase::recoverDatabase(const std::filesystem::path&
\* binaryPath): a statement that fails and a failure of sqlite3 throw.
AudacityDatabase_recoverDatabase_path(db, sys) ==
    (CHOOSE the \in {
        IF ~replay.ok
        THEN [ok |-> FALSE, db |-> [db EXCEPT !.mDatabase = NoConnection],
              sys |-> replay.sys, executed |-> replay.executed]
        ELSE IF RecoverExitCode(sys.files[ProjectPath]) # 0
        THEN [ok |-> FALSE, db |-> [db EXCEPT !.mDatabase = NoConnection],
              sys |-> replay.sys, executed |-> replay.executed]
        ELSE [ok |-> TRUE,
              db |-> [db EXCEPT !.mDatabase = Connection(WritablePath, "rw"),
                                !.mReadOnly = FALSE],
              sys |-> RecoverFinish(db, replay.sys, Connection(WritablePath, "rw")),
              executed |-> replay.executed] :
        replay \in { ReplayLines(start, Connection(WritablePath, "rw"), lines, 1, <<>>, FALSE) :
                        start \in {RecoverStart(sys)},
                        lines \in {RecoverOutput(sys.files[ProjectPath])} } } : TRUE)

\* void AudacityDatabase::recoverDatabase(): nothing when the constructor
\* has recovered already; a statement that fails is reported and ignored
\* and a failure of sqlite3 is only printed.
AudacityDatabase_recoverDatabase(db, sys) ==
    IF db.mRecoveredInConstructor
    THEN [ok |-> TRUE, db |-> db, sys |-> sys, executed |-> <<>>]
    ELSE (CHOOSE the \in {
        IF ~replay.ok
        THEN [ok |-> FALSE, db |-> [db EXCEPT !.mDatabase = NoConnection],
              sys |-> replay.sys, executed |-> replay.executed]
        ELSE [ok |-> TRUE,
              db |-> [db EXCEPT !.mDatabase = Connection(WritablePath, "rw"),
                                !.mReadOnly = FALSE],
              sys |-> RecoverFinish(db, replay.sys, Connection(WritablePath, "rw")),
              executed |-> replay.executed] :
        replay \in { ReplayLines(start, Connection(WritablePath, "rw"), lines, 1, <<>>, TRUE) :
                        start \in {RecoverStart(sys)},
                        lines \in {RecoverOutput(sys.files[ProjectPath])} } } : TRUE)

\* AudacityDatabase::AudacityDatabase(path, recoveryConfig): the database
\* is opened read-only on mProjectPath; SQLITE_CORRUPT from the pragmas
\* runs recoverDatabase when the configuration allows it.
AudacityDatabase_new(sys, recoveryConfig, ub) ==
    (CHOOSE the \in {
        IF ~sys.files[ProjectPath].exists THEN [ok |-> FALSE, db |-> db0, sys |-> sys]
        ELSE IF ~sys.files[ProjectPath].corrupt
        THEN [ok |-> sys.files[ProjectPath].user_version <= MaxSupportedVersion,
              db |-> [db0 EXCEPT !.mProjectVersion = sys.files[ProjectPath].user_version],
              sys |-> sys]
        ELSE IF ~recoveryConfig.AllowRecoveryFromConstructor
        THEN [ok |-> FALSE, db |-> db0, sys |-> sys]
        ELSE (CHOOSE the \in {
            [ok |-> r.ok /\ r.sys.files[WritablePath].user_version <= MaxSupportedVersion,
             db |-> [r.db EXCEPT !.mRecoveredInConstructor = TRUE,
                                 !.mProjectVersion =
                                     r.sys.files[WritablePath].user_version],
             sys |-> r.sys] :
            r \in {AudacityDatabase_recoverDatabase(
                       [db0 EXCEPT !.mProjectVersion =
                            IF @ = 0 THEN MaxSupportedVersion ELSE @], sys)} } : TRUE) :
        db0 \in {[mDatabase |-> Connection(ProjectPath, "ro"), mReadOnly |-> TRUE,
                  mRecoveredInConstructor |-> FALSE, mProjectVersion |-> ub.uninit,
                  mRecoveryConfig |-> recoveryConfig]} } : TRUE)

\* AudacityDatabase::AudacityDatabase(const std::filesystem::path& path):
\* the database is opened read-only on mProjectPath and the pragmas are
\* read; every failure throws.
AudacityDatabase_path(sys) ==
    (CHOOSE the \in {
        IF ~file.exists \/ file.corrupt THEN [ok |-> FALSE, db |-> db0, sys |-> sys]
        ELSE [ok |-> file.user_version <= MaxSupportedVersion,
              db |-> [db0 EXCEPT !.mProjectVersion = file.user_version],
              sys |-> sys] :
        file \in {sys.files[ProjectPath]},
        db0 \in {[mDatabase |-> Connection(ProjectPath, "ro"), mReadOnly |-> TRUE,
                  mProjectVersion |-> 0]} } : TRUE)

\* bool AudacityDatabase::hasAutosave(): v is the result.
AudacityDatabase_hasAutosave(db, sys) ==
    IF ~Sql_canRead(sys, db.mDatabase, "autosave") THEN [ok |-> FALSE, v |-> FALSE]
    ELSE [ok |-> TRUE, v |-> sys.files[db.mDatabase.path].autosave.present]

\* void AudacityDatabase::dropAutosave()
AudacityDatabase_dropAutosave(db, sys) ==
    (CHOOSE the \in {
        IF ~has.ok THEN [ok |-> FALSE, db |-> db, sys |-> sys]
        ELSE IF ~has.v THEN [ok |-> TRUE, db |-> db, sys |-> sys]
        ELSE (CHOOSE the \in {
            IF ~re.ok THEN re
            ELSE (CHOOSE the \in {
                [ok |-> ex.ok, db |-> re.db, sys |-> ex.sys] :
                ex \in {Sql_exec(re.sys, re.db.mDatabase,
                           [sql |-> "DELETE FROM autosave WHERE id = 1"])} } : TRUE) :
            re \in {AudacityDatabase_reopenReadonlyAsWritable(db, sys)} } : TRUE) :
        has \in {AudacityDatabase_hasAutosave(db, sys)} } : TRUE)

\* bool AudacityDatabase::checkIntegrity(): "ok" from PRAGMA
\* integrity_check; an exception is caught and the result is false.
AudacityDatabase_checkIntegrity(db, sys) ==
    LET file == sys.files[db.mDatabase.path]
    IN file.exists /\ ~file.corrupt /\ file.integrity

(***************************************************************************)
(* AudacityProject (ProjectModel.cpp): the operations on a parsed project. *)
(* A project is the handler record; a WaveBlock, Sequence, Clip or         *)
(* WaveTrack is named by its index in its deque.                           *)
(***************************************************************************)
\* bool WaveBlock::isSilence()
WaveBlock_isSilence(block) == block.mBlockId < 0

\* A getLength that takes every block for the last of its sequence.
WaveBlock_getLength_last(project, b) ==
    project.mSequences[project.mWaveBlocks[b].mParent].mNumSamples
        - project.mWaveBlocks[b].mStart

\* int64_t WaveBlock::getLength()
WaveBlock_getLength(project, b) ==
    LET block == project.mWaveBlocks[b]
        parent == project.mSequences[block.mParent]
        blocksInSequence == Len(parent.mBlocks)
        nextBlock == block.mParentIndex + 1
    IN IF nextBlock < blocksInSequence
       THEN project.mWaveBlocks[parent.mBlocks[nextBlock + 1]].mStart - block.mStart
       ELSE parent.mNumSamples - block.mStart

\* void ProjectTreeNode::setAttribute(name, value): the attribute list
\* afterwards.
ProjectTreeNode_setAttribute(attributes, name, value) ==
    IF \E i \in 1..Len(attributes) : attributes[i].Name = name
    THEN LET first == CHOOSE i \in 1..Len(attributes) :
                          /\ attributes[i].Name = name
                          /\ \A j \in 1..(i - 1) : attributes[j].Name # name
         IN [attributes EXCEPT ![first].Value = value]
    ELSE Append(attributes, [Name |-> name, Value |-> value])

\* void WaveBlock::convertToSilence(): the project afterwards.
WaveBlock_convertToSilence(project, b) ==
    (CHOOSE the \in {
        [project EXCEPT
             !.mWaveBlocks[b].mBlockId = mBlockId,
             !.nodes[project.mWaveBlocks[b].mXMLNode].Attributes =
                 ProjectTreeNode_setAttribute(
                     ProjectTreeNode_setAttribute(@, S_blockid,
                         [kind |-> "int64", bytes |-> EncodeSigned(mBlockId, 8)]),
                     S_badblock, [kind |-> "bool", bytes |-> <<1>>])] :
        mBlockId \in {0 - WaveBlock_getLength(project, b)} } : TRUE)

\* AudacityProject::AudacityProject(db): hasAutosave, ReadProjectBlob of
\* the table chosen, Parse.  ok = FALSE when the constructor throws.
AudacityProject_new(db, sys, ub) ==
    (CHOOSE the \in {
        IF ~has.ok \/ ~Sql_canRead(sys, db.mDatabase, IF has.v THEN "autosave" ELSE "project")
        THEN [status |-> "throw", project |-> NewProject]
        ELSE (CHOOSE the \in {
            IF ~row.present THEN [status |-> "throw", project |-> NewProject]
            ELSE (CHOOSE the \in {
                [status |-> ps.status,
                 project |-> [ps.handler EXCEPT !.NodesStack = <<>>,
                                                !.DeserializedNodeStack = <<>>]] :
                ps \in {Parse(ReadProjectBlob(row.dict, row.doc),
                              [NewProject EXCEPT !.mFromAutosave = has.v], ub)} } : TRUE) :
            row \in {IF has.v THEN sys.files[db.mDatabase.path].autosave
                     ELSE sys.files[db.mDatabase.path].project} } : TRUE) :
        has \in {AudacityDatabase_hasAutosave(db, sys)} } : TRUE)

\* A validateBlocks loop that does not compare the sample formats.
RECURSIVE validateLoop_anyFormat(_, _, _, _, _)
validateLoop_anyFormat(project, db, sys, b, missingBlocks) ==
    IF b > Len(project.mWaveBlocks) THEN missingBlocks
    ELSE IF \/ WaveBlock_isSilence(project.mWaveBlocks[b])
            \/ (/\ Sql_canRead(sys, db.mDatabase, "sampleblocks")
                /\ project.mWaveBlocks[b].mBlockId
                       \in DOMAIN sys.files[db.mDatabase.path].sampleblocks)
    THEN validateLoop_anyFormat(project, db, sys, b + 1, missingBlocks)
    ELSE validateLoop_anyFormat(project, db, sys, b + 1,
                                missingBlocks \cup {project.mWaveBlocks[b].mBlockId})

\* The for loop of validateBlocks from block b on; missingBlocks is the
\* set built so far.  A query that throws counts the block as missing.
RECURSIVE validateLoop(_, _, _, _, _)
validateLoop(project, db, sys, b, missingBlocks) ==
    IF b > Len(project.mWaveBlocks) THEN missingBlocks
    ELSE
        LET block == project.mWaveBlocks[b]
            file == sys.files[db.mDatabase.path]
            found == /\ Sql_canRead(sys, db.mDatabase, "sampleblocks")
                     /\ block.mBlockId \in DOMAIN file.sampleblocks
            format == file.sampleblocks[block.mBlockId].sampleformat
        IN IF WaveBlock_isSilence(block) \/ block.mBlockId \in missingBlocks
           THEN validateLoop(project, db, sys, b + 1, missingBlocks)
           ELSE IF ~found \/ project.mSequences[block.mParent].mFormat # format
           THEN validateLoop(project, db, sys, b + 1, missingBlocks \cup {block.mBlockId})
           ELSE validateLoop(project, db, sys, b + 1, missingBlocks)

\* std::set<int64_t> AudacityProject::validateBlocks()
AudacityProject_validateBlocks(project, db, sys) ==
    validateLoop(project, db, sys, 1, {})

\* void AudacityProject::saveProject()
AudacityProject_saveProject(project, db, sys) ==
    (CHOOSE the \in {
        IF ~re.ok THEN [status |-> "throw", db |-> re.db, sys |-> re.sys]
        ELSE (CHOOSE the \in {
            IF result.status # "ok"
            THEN [status |-> result.status, db |-> re.db, sys |-> re.sys]
            ELSE (CHOOSE the \in {
                [status |-> IF ex.ok THEN "ok" ELSE "throw", db |-> re.db,
                 sys |-> ex.sys] :
                ex \in {Sql_exec(re.sys, re.db.mDatabase,
                           [sql |-> IF project.mFromAutosave
                                    THEN "INSERT OR REPLACE INTO autosave(id, dict, doc)"
                                    ELSE "INSERT OR REPLACE INTO project(id, dict, doc)",
                            dict |-> Buffer_getLinearRepresentation(result.first),
                            doc |-> Buffer_getLinearRepresentation(result.second)])} } : TRUE) :
            result \in {SerializeProject(project.mReusableStringsCache, project.nodes,
                                         project.mProjectNode)} } : TRUE) :
        re \in {AudacityDatabase_reopenReadonlyAsWritable(db, sys)} } : TRUE)

\* A fixup loop that stops at the first block it converts.
RECURSIVE fixupLoop_first(_, _, _)
fixupLoop_first(project, missingBlocks, b) ==
    IF b > Len(project.mWaveBlocks) THEN project
    ELSE IF project.mWaveBlocks[b].mBlockId \notin missingBlocks
    THEN fixupLoop_first(project, missingBlocks, b + 1)
    ELSE WaveBlock_convertToSilence(project, b)

\* The second for loop of fixupMissingBlocks from block b on.
RECURSIVE fixupLoop(_, _, _)
fixupLoop(project, missingBlocks, b) ==
    IF b > Len(project.mWaveBlocks) THEN project
    ELSE IF project.mWaveBlocks[b].mBlockId \notin missingBlocks
    THEN fixupLoop(project, missingBlocks, b + 1)
    ELSE fixupLoop(WaveBlock_convertToSilence(project, b), missingBlocks, b + 1)

\* std::set<int64_t> AudacityProject::fixupMissingBlocks(): the set
\* returned (missingBlocks) and the project, database and system
\* afterwards.
AudacityProject_fixupMissingBlocks(project, db, sys) ==
    (CHOOSE the \in {
        IF missingBlocks = {}
        THEN [status |-> "ok", missingBlocks |-> missingBlocks, project |-> project,
              db |-> db, sys |-> sys]
        ELSE (CHOOSE the \in {
            (CHOOSE the \in {
                [status |-> saved.status, missingBlocks |-> missingBlocks, project |-> p2,
                 db |-> saved.db, sys |-> saved.sys] :
                saved \in {AudacityProject_saveProject(p2, db, sys)} } : TRUE) :
            p2 \in {[fixupLoop(project, missingBlocks, 1)
                        EXCEPT !.mReusableStringsCache = Append(@, S_badblock)]} } : TRUE) :
        missingBlocks \in {AudacityProject_validateBlocks(project, db, sys)} } : TRUE)

\* The loop of removeUnusedBlocks that executes the DELETE statements.
RECURSIVE deleteLoop(_, _, _, _)
deleteLoop(sys, conn, blocks, i) ==
    IF i > Len(blocks) THEN [ok |-> TRUE, sys |-> sys]
    ELSE (CHOOSE the \in {
        IF ~ex.ok THEN ex ELSE deleteLoop(ex.sys, conn, blocks, i + 1) :
        ex \in {Sql_exec(sys, conn,
                   [sql |-> "DELETE FROM sampleblocks WHERE blockid = ?",
                    blockid |-> blocks[i]])} } : TRUE)

\* The part of removeUnusedBlocks inside if (!orphanedBlocks.empty()), on
\* connection conn.
deleteOrphaned(sys, conn, orphanedBlocks) ==
    (CHOOSE the \in {
        IF ~begin.ok THEN begin
        ELSE (CHOOSE the \in {
            IF ~deleted.ok THEN deleted
            ELSE Sql_exec(deleted.sys, conn, [sql |-> "COMMIT"]) :
            deleted \in {deleteLoop(begin.sys, conn, Ascending(orphanedBlocks), 1)} } : TRUE) :
        begin \in {Sql_exec(sys, conn, [sql |-> "BEGIN"])} } : TRUE)

\* void AudacityProject::removeUnusedBlocks()
AudacityProject_removeUnusedBlocks(project, db, sys) ==
    IF ~Sql_canRead(sys, db.mDatabase, "sampleblocks")
    THEN [status |-> "throw", db |-> db, sys |-> sys]
    ELSE (CHOOSE the \in {
        IF ~re.ok THEN [status |-> "throw", db |-> re.db, sys |-> re.sys]
        ELSE (CHOOSE the \in {
            IF ~removed.ok THEN [status |-> "throw", db |-> re.db, sys |-> removed.sys]
            ELSE (CHOOSE the \in {
                [status |-> IF vacuum.ok THEN "ok" ELSE "throw", db |-> re.db,
                 sys |-> vacuum.sys] :
                vacuum \in {Sql_exec(removed.sys, re.db.mDatabase,
                                     [sql |-> "VACUUM"])} } : TRUE) :
            removed \in {IF orphanedBlocks # {}
                         THEN deleteOrphaned(re.sys, re.db.mDatabase, orphanedBlocks)
                         ELSE [ok |-> TRUE, sys |-> re.sys]} } : TRUE) :
        orphanedBlocks \in
            {{ project.mWaveBlocks[b].mBlockId : b \in
                 { c \in 1..Len(project.mWaveBlocks) :
                       /\ ~WaveBlock_isSilence(project.mWaveBlocks[c])
                       /\ project.mWaveBlocks[c].mBlockId \notin
                              DOMAIN sys.files[db.mDatabase.path].sampleblocks } }},
        re \in {AudacityDatabase_reopenReadonlyAsWritable(db, sys)} } : TRUE)

\* llrint(q / 4 * rate) for a double of q quarters: the nearest integer,
\* a tie going to the even one (the default rounding mode).
Llrint(q, rate) ==
    LET n == q * rate
        base == n \div 4
        rem == n % 4
    IN IF rem < 2 THEN base
       ELSE IF rem > 2 THEN base + 1
       ELSE IF base % 2 = 0 THEN base ELSE base + 1

\* n bytes read from position `from` of an array of Len(src) bytes: what
\* lies past its end is whatever the memory there holds.
ReadMemory(src, from, n, ub) ==
    [i \in 1..n |-> IF from + i <= Len(src) THEN src[from + i] ELSE ub.uninit]

\* The part of the body of the loop over the blocks after blockLength is
\* clamped: the WaveFile afterwards, status "throw" for the runtime_error.
ExtractSamples(project, db, sys, w, silence, b, blockStart, blockLength, bytesPerSample, ub) ==
    LET blockId == project.mWaveBlocks[b].mBlockId
        rows == sys.files[db.mDatabase.path].sampleblocks
    IN IF blockLength <= 0 THEN [status |-> "ok", w |-> w]
       ELSE IF blockId < 0
       THEN [status |-> "ok",
             w |-> WaveFile_writeBlock(w, ReadMemory(silence, 0, blockLength * bytesPerSample,
                                                     ub), 0)]
       ELSE IF ~Sql_canRead(sys, db.mDatabase, "sampleblocks")
       THEN [status |-> "throw", w |-> w]
       ELSE IF blockId \notin DOMAIN rows
       THEN [status |-> "ok", w |-> w]
       ELSE IF Len(rows[blockId].samples) < blockLength * bytesPerSample
       THEN [status |-> "throw", w |-> w]
       ELSE [status |-> "ok",
             w |-> WaveFile_writeBlock(w,
                       ReadMemory(rows[blockId].samples,
                                  (blockStart - project.mWaveBlocks[b].mStart) * bytesPerSample,
                                  blockLength * bytesPerSample, ub), 0)]

\* The body of the loop of extractClips over the blocks of a sequence, for
\* block b.
ExtractBlock(project, db, sys, w, silence, b, firstSample, lastSample, bytesPerSample, ub) ==
    (CHOOSE the \in {
        IF blockEnd <= firstSample \/ project.mWaveBlocks[b].mStart >= lastSample
        THEN [status |-> "ok", w |-> w]
        ELSE ExtractSamples(project, db, sys, w, silence, b,
                            Max(project.mWaveBlocks[b].mStart, firstSample),
                            Min(blockEnd, lastSample)
                                - Max(project.mWaveBlocks[b].mStart, firstSample),
                            bytesPerSample, ub) :
        blockEnd \in {project.mWaveBlocks[b].mStart + WaveBlock_getLength(project, b)} } : TRUE)

RECURSIVE ExtractBlocks(_, _, _, _, _, _, _, _, _, _, _)
ExtractBlocks(project, db, sys, w, silence, blocks, i, firstSample, lastSample, bytesPerSample, ub) ==
    IF i > Len(blocks) THEN [status |-> "ok", w |-> w]
    ELSE (CHOOSE the \in {
        IF r.status # "ok" THEN r
        ELSE ExtractBlocks(project, db, sys, r.w, silence, blocks, i + 1, firstSample,
                           lastSample, bytesPerSample, ub) :
        r \in {ExtractBlock(project, db, sys, w, silence, blocks[i], firstSample,
                            lastSample, bytesPerSample, ub)} } : TRUE)

\* The body of the loop of extractClips over the sequences of a clip, for
\* sequence s of a clip trimmed by trimLeft and trimRight on a track of
\* sample rate `rate`.
ExtractSequence(project, db, sys, w, s, trimLeft, trimRight, rate, bytesPerSample, ub) ==
    IF project.mSequences[s].mMaxSamples < 0 THEN [status |-> "throw", w |-> w]
    ELSE ExtractBlocks(project, db, sys, w,
                       [k \in 1..(project.mSequences[s].mMaxSamples * bytesPerSample) |-> 0],
                       project.mSequences[s].mBlocks, 1,
                       Llrint(trimLeft, rate),
                       project.mSequences[s].mNumSamples - Llrint(trimRight, rate),
                       bytesPerSample, ub)

\* The loop of extractClips over the sequences of clip c.
RECURSIVE ExtractSequences(_, _, _, _, _, _, _, _)
ExtractSequences(project, db, sys, w, c, i, bytesPerSample, ub) ==
    IF i > Len(project.mClips[c].mSequences) THEN [status |-> "ok", w |-> w]
    ELSE (CHOOSE the \in {
        IF r.status # "ok" THEN r
        ELSE ExtractSequences(project, db, sys, r.w, c, i + 1, bytesPerSample, ub) :
        r \in {ExtractSequence(project, db, sys, w, project.mClips[c].mSequences[i],
                               project.mClips[c].mTrimLeft,
                               project.mClips[c].mTrimRight,
                               project.mWaveTracks[project.mClips[c].mParent].mRate,
                               bytesPerSample, ub)} } : TRUE)

\* The loop of extractClips over mClips from clip c on; done is the
\* list of the WAV files written so far, each with the WaveFile it came
\* from.
RECURSIVE ExtractClipsLoop(_, _, _, _, _, _)
ExtractClipsLoop(project, db, sys, c, done, ub) ==
    IF c > Len(project.mClips) THEN [status |-> "ok", clips |-> done]
    ELSE (CHOOSE the \in {
        IF BytesPerSample(track.mSampleFormat) = 0 THEN [status |-> "throw", clips |-> done]
        ELSE (CHOOSE the \in {
            IF r.status # "ok" THEN [status |-> "throw", clips |-> done]
            ELSE ExtractClipsLoop(project, db, sys, c + 1,
                     Append(done, [clip |-> c, waveFile |-> r.w,
                                   file |-> WaveFile_writeFile(r.w)]), ub) :
            r \in {ExtractSequences(project, db, sys,
                                    WaveFile_new(track.mSampleFormat, track.mRate, 1),
                                    c, 1, BytesPerSample(track.mSampleFormat), ub)} } : TRUE) :
        track \in {project.mWaveTracks[project.mClips[c].mParent]} } : TRUE)

\* void AudacityProject::extractClips()
AudacityProject_extractClips(project, db, sys, ub) ==
    ExtractClipsLoop(project, db, sys, 1, <<>>, ub)

(***************************************************************************)
(* Values of the variables a specification does not use.                   *)
(***************************************************************************)
NoFile == [header |-> <<>>, headerBytes |-> 0, data |-> <<>>]

NoRead == [offset |-> 0, size |-> 0, data |-> <<>>, kind |-> "none"]

NoCodec == [phase |-> "idle"]

BufIdle ==
    /\ buffer = NewBuffer
    /\ written = <<>>
    /\ lastRead = NoRead
    /\ appends = 0

WavIdle ==
    /\ waveFile = [w |-> WaveFile_new(Float32, 0, 0), blocks |-> 0]
    /\ wavOut = NoFile

CodecIdle == codec = NoCodec

NoDatabase == [mDatabase |-> NoConnection]

NoProjectObj == [status |-> "none"]

NoOp == [op |-> "none", count |-> 0]

NoRun == [pc |-> "none"]

ProjIdle ==
    /\ storage = [files |-> [p \in {ProjectPath, WritablePath} |-> NoDbFile], log |-> <<>>]
    /\ projectDatabase = NoDatabase
    /\ projectObj = NoProjectObj
    /\ clipFiles = <<>>
    /\ lastOp = NoOp
    /\ run = NoRun

(***************************************************************************)
(* Buffer harness: a buffer grown by appends of byte ranges and of         *)
(* scalars, read back at offsets around the chunk boundaries.              *)
(***************************************************************************)
MaxAppends == 3        \* append calls before the buffer is reset

\* The byte the harness writes at logical position p (positions that are a
\* chunk apart hold different bytes).
PatternByte(p) == (p % 251) + 1

PatternData(from, n) == [i \in 1..n |-> PatternByte(from + i - 1)]

AppendLens == {3, BUFFER_SIZE - 1, BUFFER_SIZE + 2}

ScalarSizes == {1, 8}

ReadOffsets(N) ==
    {o \in {0, BUFFER_SIZE - 4, BUFFER_SIZE - 1, BUFFER_SIZE, N - 1, N, N + 1} : o >= 0}

ReadSizes(N) == {0, 1, 2, BUFFER_SIZE + 1, N}

BufInit ==
    /\ BufIdle
    /\ WavIdle
    /\ CodecIdle
    /\ ProjIdle

BufAppend ==
    \E n \in AppendLens :
        /\ appends < MaxAppends
        /\ buffer' = Buffer_append(buffer, PatternData(Len(written), n))
        /\ written' = written \o PatternData(Len(written), n)
        /\ lastRead' = NoRead
        /\ appends' = appends + 1
        /\ UNCHANGED bufOthers

BufAppendScalar ==
    \E n \in ScalarSizes :
        /\ appends < MaxAppends
        /\ buffer' = Buffer_appendScalar(buffer, PatternData(Len(written), n))
        /\ written' = written \o PatternData(Len(written), n)
        /\ lastRead' = NoRead
        /\ appends' = appends + 1
        /\ UNCHANGED bufOthers

BufRead ==
    \E offset \in ReadOffsets(Buffer_getSize(buffer)),
       size \in ReadSizes(Buffer_getSize(buffer)) :
        /\ lastRead' = [offset |-> offset, size |-> size,
                        data |-> Buffer_read(buffer, offset, size), kind |-> "bytes"]
        /\ UNCHANGED <<buffer, written, appends>>
        /\ UNCHANGED bufOthers

BufReadScalar ==
    \E offset \in ReadOffsets(Buffer_getSize(buffer)), size \in ScalarSizes :
        /\ lastRead' = [offset |-> offset, size |-> size,
                        data |-> Buffer_readScalar(buffer, offset, size), kind |-> "scalar"]
        /\ UNCHANGED <<buffer, written, appends>>
        /\ UNCHANGED bufOthers

BufReset ==
    /\ written # <<>>
    /\ buffer' = Buffer_reset(buffer)
    /\ written' = <<>>
    /\ lastRead' = NoRead
    /\ appends' = 0
    /\ UNCHANGED bufOthers

BufNext == BufAppend \/ BufAppendScalar \/ BufRead \/ BufReadScalar \/ BufReset

SpecBuffer == BufInit /\ [][BufNext]_vars

(***************************************************************************)
(* WaveFile harness: blocks of any byte count written to the channels of   *)
(* a WaveFile, then writeFile.                                             *)
(***************************************************************************)
MaxWavBlocks == 3       \* writeBlock calls per WaveFile

WavChannelCounts == {1, 2}

WavBlockLens == {1, 2, 3, 4, 6, 12}

\* Bytes of a block: position p of channel c holds a byte that names both.
WavData(c, from, n) == [i \in 1..n |-> (((from + i - 1) * 2 + c) % 255) + 1]

WavInit ==
    /\ BufIdle
    /\ CodecIdle
    /\ ProjIdle
    /\ \E fmt \in SampleFormats, numChannels \in WavChannelCounts :
           waveFile = [w |-> WaveFile_new(fmt, 44100, numChannels), blocks |-> 0]
    /\ wavOut = NoFile

WavWriteBlock ==
    \E c \in 0..(waveFile.w.mNumChannels - 1), n \in WavBlockLens :
        /\ wavOut = NoFile
        /\ waveFile.blocks < MaxWavBlocks
        /\ waveFile' = [w |-> WaveFile_writeBlock(waveFile.w,
                                  WavData(c, Buffer_getSize(waveFile.w.mChannels[c + 1]), n), c),
                        blocks |-> waveFile.blocks + 1]
        /\ UNCHANGED wavOut
        /\ UNCHANGED wavOthers

WavWriteFile ==
    /\ wavOut = NoFile
    /\ wavOut' = WaveFile_writeFile(waveFile.w)
    /\ UNCHANGED waveFile
    /\ UNCHANGED wavOthers

WavNext == WavWriteBlock \/ WavWriteFile

SpecWave == WavInit /\ [][WavNext]_vars

(***************************************************************************)
(* Codec harness: a valid (dict, doc) pair is parsed into a project tree,  *)
(* the tree is serialized, and the blobs written are parsed again.         *)
(*                                                                         *)
(* A document is built from records; a string is a sequence of code        *)
(* points, written with the character size the document declares.          *)
(***************************************************************************)
S_project == <<112, 114, 111, 106, 101, 99, 116>>    \* "project"
S_tags == <<116, 97, 103, 115>>    \* "tags"

\* The characters of a string on the wire, charSize bytes each.
RECURSIVE WireChars(_, _)
WireChars(cps, charSize) ==
    IF cps = <<>> THEN <<>>
    ELSE EncodeUnsigned(cps[1], charSize) \o WireChars(SubSeq(cps, 2, Len(cps)), charSize)

WireString(cps, charSize, useInt) ==
    EncodeUnsigned(Len(cps) * charSize, IF useInt THEN 4 ELSE 2)
        \o (IF charSize = 1 THEN cps ELSE WireChars(cps, charSize))

WireName(id, cps, charSize) ==
    <<FT_Name>> \o EncodeUnsigned(id, 2) \o WireString(cps, charSize, FALSE)

\* The value bytes of a scalar attribute record, the digits field of a
\* float or double included.
WireScalar(op) ==
    CASE op = FT_Int -> EncodeSigned(-5, 4)
      [] op = FT_Bool -> <<1>>
      [] op = FT_Long -> EncodeSigned(70000, 4)
      [] op = FT_LongLong -> EncodeSigned(-3, 8)
      [] op = FT_SizeT -> EncodeUnsigned(44100, 4)
      [] op = FT_Float -> <<0, 0, 128, 63>> \o EncodeSigned(7, 4)
      [] op = FT_Double -> DoubleBytes(6) \o EncodeSigned(19, 4)

\* A string of n characters; the first is U+00E9 when the document's
\* characters are wider than a byte.
TextOf(n, charSize) ==
    [i \in 1..n |-> IF i = 1 /\ charSize > 1 THEN 233 ELSE 97 + (i % 26)]

DocShapes ==
    { [charSize |-> c, strLen |-> n, op |-> op, data |-> d] :
          c \in {1, 2, 4}, n \in {0, 2}, op \in ScalarOps, d \in BOOLEAN }
    \cup
    { [charSize |-> 1, strLen |-> BUFFER_SIZE, op |-> op, data |-> d] :
          op \in ScalarOps, d \in BOOLEAN }

\* <project rate=SCALAR name=STRING><tags>DATA</tags><tags/></project>
DictOf(shape) ==
    <<FT_CharSize, shape.charSize>>
        \o WireName(0, S_project, shape.charSize)
        \o WireName(1, S_rate, shape.charSize)
        \o WireName(2, S_tags, shape.charSize)
        \o WireName(3, S_name, shape.charSize)

DocOf(shape) ==
    <<FT_StartTag, 0, 0>>
        \o <<shape.op, 1, 0>> \o WireScalar(shape.op)
        \o <<FT_String, 3, 0>> \o WireString(TextOf(shape.strLen, shape.charSize), shape.charSize, TRUE)
        \o <<FT_StartTag, 2, 0>>
        \o <<FT_Raw>> \o WireString(<<122, 122>>, shape.charSize, TRUE)
        \o (IF shape.data
            THEN <<FT_Data>> \o WireString(<<104, 105>>, shape.charSize, TRUE) ELSE <<>>)
        \o <<FT_EndTag, 2, 0>>
        \o <<FT_StartTag, 2, 0>>
        \o <<FT_EndTag, 2, 0>>
        \o <<FT_EndTag, 0, 0>>

\* The outcomes undefined behaviour can have.
UbChoices ==
    { [uninit |-> u, lookupCrash |-> c, staleNames |-> s] :
          u \in {0, 7}, c \in BOOLEAN, s \in BOOLEAN }

CodecInit ==
    /\ BufIdle
    /\ WavIdle
    /\ ProjIdle
    /\ \E shape \in DocShapes :
           codec = [phase |-> "input", dict |-> DictOf(shape), doc |-> DocOf(shape)]

\* AudacityProject::AudacityProject: ReadProjectBlob and Parse.
CodecParse ==
    /\ codec.phase = "input"
    /\ \E ub \in UbChoices :
           \E ps \in {Parse(ReadProjectBlob(codec.dict, codec.doc), NewProject, ub)} :
               codec' = [phase |-> "parsed", dict |-> codec.dict, doc |-> codec.doc,
                         status |-> ps.status, first |-> ps.handler]
    /\ UNCHANGED codecOthers

\* SerializeProject(mReusableStringsCache, *mProjectNode) and the
\* getLinearRepresentation of both buffers, as in saveProject.
CodecSerialize ==
    /\ codec.phase = "parsed"
    /\ codec.status = "ok"
    /\ \E r \in {SerializeProject(codec.first.mReusableStringsCache, codec.first.nodes,
                                   codec.first.mProjectNode)} :
           codec' = [phase |-> "serialized", first |-> codec.first, status |-> r.status,
                     dict |-> Buffer_getLinearRepresentation(r.first),
                     doc |-> Buffer_getLinearRepresentation(r.second)]
    /\ UNCHANGED codecOthers

CodecReparse ==
    /\ codec.phase = "serialized"
    /\ codec.status = "ok"
    /\ \E ub \in UbChoices :
           \E ps \in {Parse(ReadProjectBlob(codec.dict, codec.doc), NewProject, ub)} :
               codec' = [phase |-> "reparsed", first |-> codec.first,
                         status |-> ps.status, second |-> ps.handler]
    /\ UNCHANGED codecOthers

CodecNext == CodecParse \/ CodecSerialize \/ CodecReparse

SpecCodec == CodecInit /\ [][CodecNext]_vars


(***************************************************************************)
(* Record harness: a stream of records, complete or cut after any number   *)
(* of bytes, is parsed into a project.                                     *)
(***************************************************************************)
RCharSize(width) == [op |-> "CharSize", id |-> 0, code |-> width, text |-> <<>>]

RName(id, text) == [op |-> "Name", id |-> id, code |-> FT_Name, text |-> text]

RStart(id) == [op |-> "Start", id |-> id, code |-> FT_StartTag, text |-> <<>>]

REnd(id) == [op |-> "End", id |-> id, code |-> FT_EndTag, text |-> <<>>]

RScalar(code, id) == [op |-> "Scalar", id |-> id, code |-> code, text |-> <<>>]

RString(id, text) == [op |-> "String", id |-> id, code |-> FT_String, text |-> text]

RData(text) == [op |-> "Data", id |-> 0, code |-> FT_Data, text |-> text]

RRaw(text) == [op |-> "Raw", id |-> 0, code |-> FT_Raw, text |-> text]

\* The bytes of a record in a stream whose characters have charSize bytes.
WireRecord(r, charSize) ==
    CASE r.op = "CharSize" -> <<FT_CharSize, r.code>>
      [] r.op = "Name" -> WireName(r.id, r.text, charSize)
      [] r.op \in {"Start", "End"} -> <<r.code>> \o EncodeUnsigned(r.id, 2)
      [] r.op = "Scalar" -> <<r.code>> \o EncodeUnsigned(r.id, 2) \o WireScalar(r.code)
      [] r.op = "String" ->
             <<r.code>> \o EncodeUnsigned(r.id, 2) \o WireString(r.text, charSize, TRUE)
      [] r.op \in {"Data", "Raw"} -> <<r.code>> \o WireString(r.text, charSize, TRUE)

\* The bytes of the records from record i on; a CharSize record of a
\* supported width changes the width the strings after it are written with.
RECURSIVE WireRecords(_, _, _)
WireRecords(recs, i, charSize) ==
    IF i > Len(recs) THEN <<>>
    ELSE WireRecord(recs[i], charSize)
             \o WireRecords(recs, i + 1,
                            IF recs[i].op = "CharSize" /\ recs[i].code \in {1, 2, 4}
                            THEN recs[i].code ELSE charSize)

WireOf(recs) == WireRecords(recs, 1, 1)

\* The names every stream defines: 0 project, 1 rate, 2 tags, 3 name.
RecordDict(charSize) ==
    << RCharSize(charSize), RName(0, S_project), RName(1, S_rate), RName(2, S_tags),
       RName(3, S_name) >>

RecordDocs ==
    [ attrs |-> << RStart(0), RScalar(FT_Int, 1), RString(3, <<97, 98>>), RStart(2),
                   RRaw(<<122, 122>>), RScalar(FT_Bool, 1), RData(<<104, 105>>), REnd(2),
                   RStart(2), REnd(2), REnd(0) >>,
      floats |-> << RStart(0), RScalar(FT_Float, 1), RScalar(FT_Double, 1), RStart(2),
                    RString(3, <<>>), REnd(2), REnd(0) >>,
      bare |-> << RStart(0), RStart(2), RStart(2), REnd(2), REnd(2), REnd(0) >>,
      wide |-> << RStart(0), RScalar(FT_LongLong, 1), RScalar(FT_SizeT, 3),
                  RScalar(FT_Long, 1), RData(<<104>>), REnd(0) >>,
      long |-> << RStart(0), RString(3, [i \in 1..BUFFER_SIZE |-> 97 + (i % 26)]),
                  RScalar(FT_Int, 1), REnd(0) >> ]

\* The widths a CharSize record may carry that the reader does not support.
BadWidths == {0, 3, 8}

InsertAt(recs, k, r) == SubSeq(recs, 1, k) \o <<r>> \o SubSeq(recs, k + 1, Len(recs))

\* How many bytes of a stream are kept: every count for a short stream, the
\* counts around the chunk boundary and the end for a long one.
CutsOf(recs) ==
    LET n == Len(WireOf(recs))
    IN IF n < 256 THEN 0..n
       ELSE ((BUFFER_SIZE - 2)..(BUFFER_SIZE + 2)) \cup ((n - 12)..n)

RecordLists ==
    { RecordDict(c) \o RecordDocs[d] : c \in {1, 2}, d \in {"attrs", "floats", "bare", "wide"} }
        \cup { RecordDict(1) \o RecordDocs["long"] }

\* The streams of well-formed records, complete and cut.
StreamsCut ==
    UNION { { [recs |-> recs, cut |-> cut, bad |-> FALSE] : cut \in CutsOf(recs) } :
                recs \in RecordLists }

\* Complete streams with one more CharSize record, of an unsupported
\* width, at any position.
StreamsBadWidth ==
    UNION { { [recs |-> InsertAt(recs, k, RCharSize(w)),
               cut |-> Len(WireOf(InsertAt(recs, k, RCharSize(w)))), bad |-> TRUE] :
                  k \in 0..Len(recs), w \in BadWidths } :
                recs \in { RecordDict(1) \o RecordDocs[d] : d \in {"attrs", "bare"} } }

StreamInit ==
    /\ BufIdle
    /\ WavIdle
    /\ ProjIdle
    /\ \E s \in StreamsCut \cup StreamsBadWidth :
           codec = [phase |-> "records", recs |-> s.recs, cut |-> s.cut, bad |-> s.bad]

\* ReadProjectBlob of the bytes kept and Parse into a new AudacityProject.
StreamParse ==
    /\ codec.phase = "records"
    /\ \E ub \in UbChoices :
           \E ps \in {Parse(ReadProjectBlob(SubSeq(WireOf(codec.recs), 1, codec.cut), <<>>),
                            NewProject, ub)} :
               codec' = [phase |-> "read", recs |-> codec.recs, cut |-> codec.cut,
                         bad |-> codec.bad, status |-> ps.status, first |-> ps.handler]
    /\ UNCHANGED codecOthers

StreamNext == StreamParse

SpecStream == StreamInit /\ [][StreamNext]_vars

(***************************************************************************)
(* Name harness: streams whose Name records come in any order, redefine    *)
(* ids and stand between the element records.                              *)
(***************************************************************************)
\* The document every name stream holds: ids 0, 1 and 2 name the tags and
\* the attribute.
NameDocs ==
    [ flat |-> << RStart(0), RScalar(FT_Int, 1), RStart(2), REnd(2), REnd(0) >>,
      text |-> << RStart(0), RStart(2), RString(1, <<97>>), RData(<<104, 105>>), REnd(2),
                  REnd(0) >> ]

NameDict == << RName(0, S_project), RName(1, S_rate), RName(2, S_tags) >>

\* The orders of three Name records.
NameOrders ==
    { <<NameDict[p[1]], NameDict[p[2]], NameDict[p[3]]>> :
          p \in { q \in [1..3 -> 1..3] : \A i, j \in 1..3 : i # j => q[i] # q[j] } }

\* One more Name record: a redefinition of id 0, 1 or 2, the next free id
\* or an id beyond it.
ExtraNames == { RName(id, S_name) : id \in 0..4 }

\* The dictionary in any order before the document; the dictionary in
\* ascending order and one more Name record at any later position.
NameStreams ==
    { <<RCharSize(1)>> \o o \o NameDocs[d] : o \in NameOrders, d \in {"flat", "text"} }
        \cup UNION { { InsertAt(<<RCharSize(1)>> \o NameDict \o NameDocs[d], k, x) :
                           k \in 4..(4 + Len(NameDocs[d])) } :
                         x \in ExtraNames, d \in {"flat", "text"} }

NamesInit ==
    /\ BufIdle
    /\ WavIdle
    /\ ProjIdle
    /\ \E recs \in NameStreams : codec = [phase |-> "names", recs |-> recs]

\* ReadProjectBlob of the stream and Parse into a new AudacityProject.
NamesParse ==
    /\ codec.phase = "names"
    /\ \E ub \in UbChoices :
           \E ps \in {Parse(ReadProjectBlob(WireOf(codec.recs), <<>>), NewProject, ub)} :
               codec' = [phase |-> "named", recs |-> codec.recs, status |-> ps.status,
                         first |-> ps.handler, mIds |-> ps.mIds]
    /\ UNCHANGED codecOthers

NamesNext == NamesParse

SpecNames == NamesInit /\ [][NamesNext]_vars

(***************************************************************************)
(* XML harness: an XMLConverter receives the events of a balanced          *)
(* document one by one; pieces holds what each event appended to mBuffer.  *)
(***************************************************************************)
XStart(name, attrs) == [ev |-> "start", name |-> name, attrs |-> attrs, text |-> <<>>]

XEnd(name) == [ev |-> "end", name |-> name, attrs |-> <<>>, text |-> <<>>]

XData(text) == [ev |-> "data", name |-> <<>>, attrs |-> <<>>, text |-> text]

XmlNames == {<<97>>, <<98, 99>>}

\* No attribute, or a string and an integer.
XmlAttrs ==
    { <<>>,
      << [Name |-> S_name, Value |-> [kind |-> "string", bytes |-> <<104, 38>>]],
         [Name |-> S_rate, Value |-> [kind |-> "int32", bytes |-> EncodeSigned(-5, 4)]] >> }

\* Character data: every single byte, and a text of several characters.
XmlTexts == { <<c>> : c \in 0..255 } \cup { <<104, 8, 60, 9, 105, 31, 38, 34, 39, 62, 200>> }

Wrap(name, attrs, inner) == <<XStart(name, attrs)>> \o inner \o <<XEnd(name)>>

\* An element without content, and one that holds character data.
XmlLeaves ==
    { Wrap(n, a, <<>>) : n \in XmlNames, a \in XmlAttrs }
        \cup { Wrap(<<97>>, <<>>, <<XData(t)>>) : t \in XmlTexts }

XmlSmall ==
    { Wrap(n, <<>>, <<>>) : n \in XmlNames } \cup { Wrap(<<97>>, <<>>, <<XData(<<104, 105>>)>>) }

\* An element holding one or two elements, character data before them or
\* not.
XmlNested ==
    { Wrap(n, <<>>, d \o x) : n \in XmlNames, x \in XmlSmall, d \in {<<>>, <<XData(<<104>>)>>} }
        \cup { Wrap(n, <<>>, x \o y) : n \in XmlNames, x \in XmlSmall, y \in XmlSmall }

XmlDeep == { Wrap(n, <<>>, x) : n \in XmlNames, x \in XmlNested }

XmlDocuments == XmlLeaves \cup XmlNested \cup XmlDeep

XmlInit ==
    /\ BufIdle
    /\ WavIdle
    /\ ProjIdle
    /\ \E events \in XmlDocuments :
           codec = [phase |-> "xml", events |-> events, done |-> 0, h |-> NewConverter,
                    pieces |-> <<>>]

\* The bytes a call appended to the converter's buffer.
Appended(h, h2) ==
    SubSeq(Buffer_getLinearRepresentation(h2.mBuffer),
           Buffer_getSize(h.mBuffer) + 1, Buffer_getSize(h2.mBuffer))

XmlHandled(h2) ==
    codec' = [codec EXCEPT !.done = @ + 1, !.h = h2,
                           !.pieces = Append(@, Appended(codec.h, h2))]

\* converter.HandleTagStart(name, attributes)
XmlTagStart ==
    /\ codec.phase = "xml"
    /\ codec.done < Len(codec.events)
    /\ codec.events[codec.done + 1].ev = "start"
    /\ \E h2 \in {XMLConverter_HandleTagStart(codec.h, codec.events[codec.done + 1].name,
                                              codec.events[codec.done + 1].attrs)} :
           XmlHandled(h2)
    /\ UNCHANGED codecOthers

\* converter.HandleTagEnd(name)
XmlTagEnd ==
    /\ codec.phase = "xml"
    /\ codec.done < Len(codec.events)
    /\ codec.events[codec.done + 1].ev = "end"
    /\ \E h2 \in {XMLConverter_HandleTagEnd(codec.h, codec.events[codec.done + 1].name)} :
           XmlHandled(h2)
    /\ UNCHANGED codecOthers

\* converter.HandleCharData(data)
XmlCharData ==
    /\ codec.phase = "xml"
    /\ codec.done < Len(codec.events)
    /\ codec.events[codec.done + 1].ev = "data"
    /\ \E h2 \in {XMLConverter_HandleCharData(codec.h, codec.events[codec.done + 1].text)} :
           XmlHandled(h2)
    /\ UNCHANGED codecOthers

XmlNext ==
    \/ XmlTagStart
    \/ XmlTagEnd
    \/ XmlCharData

SpecXml == XmlInit /\ [][XmlNext]_vars

(***************************************************************************)
(* Tree harness: an AudacityProject receives the tag events of a document  *)
(* of tracks, clips, sequences and blocks one by one; elements of another  *)
(* name may stand between an element and its parent.  ub is what the       *)
(* members no attribute sets hold in this run.                             *)
(***************************************************************************)
\* inner, or inner inside an element <tags>.
Between(other, inner) == IF other THEN Wrap(S_tags, <<>>, inner) ELSE inner

\* <project><wavetrack><waveclip><sequence><waveblock/><waveblock/>
\* </sequence></waveclip></wavetrack></project>, with <tags> around the
\* blocks, the sequence, the clip or the track where `others` says so.
LinkChain(others) ==
    Wrap(S_project, <<>>,
         Between(others[1],
             Wrap(S_wavetrack, <<>>,
                  Between(others[2],
                      Wrap(S_waveclip, <<>>,
                           Between(others[3],
                               Wrap(S_sequence, <<>>,
                                    Between(others[4],
                                        Wrap(S_waveblock, <<>>, <<>>)
                                            \o Wrap(S_waveblock, <<>>, <<>>)))))))))

\* Two tracks; the first holds two clips, the first of them two
\* sequences; an element <tags> lies beside them.
LinkBroad ==
    Wrap(S_project, <<>>,
         Wrap(S_wavetrack, <<>>,
              Wrap(S_waveclip, <<>>,
                   Wrap(S_sequence, <<>>, Wrap(S_waveblock, <<>>, <<>>))
                       \o Wrap(S_tags, <<>>, <<>>)
                       \o Wrap(S_sequence, <<>>,
                               Wrap(S_waveblock, <<>>, <<>>)
                                   \o Wrap(S_waveblock, <<>>, <<>>)))
                  \o Wrap(S_waveclip, <<>>,
                          Wrap(S_sequence, <<>>, Wrap(S_waveblock, <<>>, <<>>))))
             \o Wrap(S_wavetrack, <<>>,
                     Wrap(S_waveclip, <<>>,
                          Wrap(S_sequence, <<>>, Wrap(S_waveblock, <<>>, <<>>)))))

LinkDocuments == { LinkChain(o) : o \in [1..4 -> BOOLEAN] } \cup { LinkBroad }

LinkInit ==
    /\ BufIdle
    /\ WavIdle
    /\ ProjIdle
    /\ \E events \in LinkDocuments, ub \in UbChoices :
           codec = [phase |-> "links", events |-> events, done |-> 0, h |-> NewProject,
                    ub |-> ub]

\* project.HandleTagStart(name, attributes); an exception ends the parse.
LinkTagStart ==
    /\ codec.phase = "links"
    /\ codec.h.fault = "none"
    /\ codec.done < Len(codec.events)
    /\ codec.events[codec.done + 1].ev = "start"
    /\ codec' = [codec EXCEPT !.done = @ + 1,
                              !.h = AudacityProject_HandleTagStart(
                                        codec.h, codec.events[codec.done + 1].name,
                                        codec.events[codec.done + 1].attrs, codec.ub)]
    /\ UNCHANGED codecOthers

\* project.HandleTagEnd(name)
LinkTagEnd ==
    /\ codec.phase = "links"
    /\ codec.h.fault = "none"
    /\ codec.done < Len(codec.events)
    /\ codec.events[codec.done + 1].ev = "end"
    /\ codec' = [codec EXCEPT !.done = @ + 1,
                              !.h = AudacityProject_HandleTagEnd(
                                        codec.h, codec.events[codec.done + 1].name)]
    /\ UNCHANGED codecOthers

LinkNext ==
    \/ LinkTagStart
    \/ LinkTagEnd

SpecLinks == LinkInit /\ [][LinkNext]_vars

(***************************************************************************)
(* Recovery process harness: recoverDatabase and the sqlite3 child it      *)
(* starts, joined by the pipes of its standard output and standard error.  *)
(* A pipe holds PipeCapacity writes; a write to a full pipe blocks the     *)
(* child.  The child is a list of writes, each a line of standard output   *)
(* (a statement, a statement that fails, or an empty line) or a piece of   *)
(* standard error, and an exit code.                                       *)
(***************************************************************************)
PipeCapacity == 1        \* writes a pipe holds before the writer blocks

MaxChildWrites == 4      \* writes of the child before it exits

ChildWrites == {"stmt", "bad", "empty", "err"}

ChildScripts == UNION { [1..n -> ChildWrites] : n \in 0..MaxChildWrites }

PipesInit ==
    /\ BufIdle
    /\ WavIdle
    /\ ProjIdle
    /\ \E script \in ChildScripts, code \in {0, 1}, catches \in BOOLEAN :
           codec = [phase |-> "pipes", pc |-> "getline", catches |-> catches,
                    script |-> script, next |-> 1, code |-> code, child |-> "running",
                    out |-> <<>>, err |-> 0, consumed |-> 0]

\* The child writes its next line to std_out or its next piece to std_err;
\* the write blocks while the pipe is full.
ChildWrite ==
    /\ codec.phase = "pipes"
    /\ codec.child = "running"
    /\ codec.next <= Len(codec.script)
    /\ IF codec.script[codec.next] = "err"
       THEN /\ codec.err < PipeCapacity
            /\ codec' = [codec EXCEPT !.err = @ + 1, !.next = @ + 1]
       ELSE /\ Len(codec.out) < PipeCapacity
            /\ codec' = [codec EXCEPT !.out = Append(@, codec.script[codec.next]),
                                      !.next = @ + 1]
    /\ UNCHANGED codecOthers

\* The child has written everything: it exits, which closes its ends of
\* the pipes.
ChildExit ==
    /\ codec.phase = "pipes"
    /\ codec.child = "running"
    /\ codec.next > Len(codec.script)
    /\ codec' = [codec EXCEPT !.child = "exited"]
    /\ UNCHANGED codecOthers

\* while (out_stream && std::getline(out_stream, line) && !line.empty()):
\* one turn of the loop.  getline blocks while the pipe is empty and the
\* child has it open.  The end of the stream and an empty line end the
\* loop; a statement that fails is skipped where the exception is caught
\* and leaves recoverDatabase where it is not (the destructor of the child
\* object then ends the child).
PipeGetline ==
    /\ codec.phase = "pipes"
    /\ codec.pc = "getline"
    /\ IF codec.out = <<>>
       THEN /\ codec.child # "running"
            /\ codec' = [codec EXCEPT !.pc = "wait"]
       ELSE codec' =
                IF Head(codec.out) = "empty"
                THEN [codec EXCEPT !.out = Tail(@), !.pc = "wait"]
                ELSE IF Head(codec.out) = "bad" /\ ~codec.catches
                THEN [codec EXCEPT !.out = Tail(@), !.consumed = @ + 1, !.pc = "thrown",
                                   !.child = IF @ = "running" THEN "killed" ELSE @]
                ELSE [codec EXCEPT !.out = Tail(@), !.consumed = @ + 1]
    /\ UNCHANGED codecOthers

\* c.wait(), which returns when the child has exited, then the exit code:
\* std_err is read to its end when it is not 0, and the message is thrown
\* or printed; then the last pragmas.
PipeWait ==
    /\ codec.phase = "pipes"
    /\ codec.pc = "wait"
    /\ codec.child = "exited"
    /\ codec' = IF codec.code # 0
                THEN [codec EXCEPT !.err = 0,
                                   !.pc = IF codec.catches THEN "done" ELSE "thrown"]
                ELSE [codec EXCEPT !.pc = "done"]
    /\ UNCHANGED codecOthers

PipesNext == ChildWrite \/ ChildExit \/ PipeGetline \/ PipeWait

SpecPipes == PipesInit /\ [][PipesNext]_vars

(***************************************************************************)
(* Project harness: a project file holding one track with one clip and    *)
(* one sequence is opened and parsed, and the operations of                *)
(* AudacityProject are called on it.                                       *)
(***************************************************************************)
MaxProjOps == 2        \* operations called on a project after it is opened

ProjNames ==
    << S_project, S_wavetrack, S_waveclip, S_sequence, S_waveblock, S_name, S_channel,
       S_linked, S_sampleformat, S_rate, S_offset, S_trimLeft, S_trimRight,
       S_maxsamples, S_numsamples, S_start, S_blockid >>

\* The id the dictionary gives a name; "badblock" follows the names every
\* project has.
NameId(name) == IndexOf(ProjNames \o <<S_badblock>>, name) - 1

RECURSIVE WireNames(_, _)
WireNames(names, i) ==
    IF i > Len(names) THEN <<>>
    ELSE WireName(i - 1, names[i], 1) \o WireNames(names, i + 1)

\* The dict of a project; one that was fixed before names "badblock".
ProjDict(fixedBefore) ==
    <<FT_CharSize, 1>>
        \o WireNames(IF fixedBefore THEN ProjNames \o <<S_badblock>> ELSE ProjNames, 1)

WireStart(name) == <<FT_StartTag>> \o EncodeUnsigned(NameId(name), 2)

WireEnd(name) == <<FT_EndTag>> \o EncodeUnsigned(NameId(name), 2)

WireAttr(op, name, bytes) == <<op>> \o EncodeUnsigned(NameId(name), 2) \o bytes

WireDouble(name, q) == WireAttr(FT_Double, name, DoubleBytes(q) \o EncodeSigned(19, 4))

RECURSIVE WireBlocks(_, _)
WireBlocks(blocks, i) ==
    IF i > Len(blocks) THEN <<>>
    ELSE WireStart(S_waveblock)
             \o WireAttr(FT_LongLong, S_start, EncodeSigned(blocks[i].start, 8))
             \o WireAttr(FT_LongLong, S_blockid, EncodeSigned(blocks[i].id, 8))
             \o (IF blocks[i].id < 0 THEN WireAttr(FT_Bool, S_badblock, <<1>>) ELSE <<>>)
             \o WireEnd(S_waveblock)
             \o WireBlocks(blocks, i + 1)

\* The sequences of blocks the projects hold, each with numsamples.
Layouts ==
    [ tiled |-> [n |-> 8, blocks |-> << [start |-> 0, id |-> 7], [start |-> 4, id |-> 8] >>],
      shared |-> [n |-> 10, blocks |-> << [start |-> 0, id |-> 7], [start |-> 4, id |-> 7],
                                          [start |-> 8, id |-> -2] >>],
      unordered |-> [n |-> 8, blocks |-> << [start |-> 0, id |-> 7], [start |-> 6, id |-> 8],
                                            [start |-> 4, id |-> 9] >>],
      late |-> [n |-> 8, blocks |-> << [start |-> 2, id |-> 7], [start |-> 4, id |-> 8] >>],
      empty |-> [n |-> 8, blocks |-> << [start |-> 0, id |-> 7], [start |-> 4, id |-> 8],
                                        [start |-> 4, id |-> 9] >>],
      none |-> [n |-> 8, blocks |-> << >>] ]

MaxSamples == 4        \* the maxsamples attribute of every sequence

\* rate, trimLeft and trimRight (in quarters of a second)
Trims ==
    { [rate |-> 4, left |-> 0, right |-> 0], [rate |-> 4, left |-> 2, right |-> 1],
      [rate |-> 4, left |-> 6, right |-> 0], [rate |-> 2, left |-> 3, right |-> 1] }

ProjShapes ==
    { [format |-> f, layout |-> l, trim |-> t, store |-> "full", autosave |-> FALSE] :
          f \in SampleFormats, l \in DOMAIN Layouts, t \in Trims }
    \cup
    { [format |-> f, layout |-> l, trim |-> t, store |-> st, autosave |-> a] :
          f \in {Int16, Float32}, l \in {"tiled", "shared", "empty"},
          t \in { u \in Trims : u.rate = 4 /\ u.left < 6 },
          st \in {"missing7", "mismatch8", "short7"}, a \in BOOLEAN }

ProjDoc(shape) ==
       WireStart(S_project)
         \o WireStart(S_wavetrack)
         \o WireAttr(FT_String, S_name, WireString(<<116>>, 1, TRUE))
         \o WireAttr(FT_Int, S_channel, EncodeSigned(0, 4))
         \o WireAttr(FT_Bool, S_linked, <<0>>)
         \o WireAttr(FT_Long, S_sampleformat, EncodeSigned(shape.format, 4))
         \o WireAttr(FT_Int, S_rate, EncodeSigned(shape.trim.rate, 4))
         \o WireStart(S_waveclip)
         \o WireDouble(S_offset, 0)
         \o WireDouble(S_trimLeft, shape.trim.left)
         \o WireDouble(S_trimRight, shape.trim.right)
         \o WireAttr(FT_String, S_name, WireString(<<99>>, 1, TRUE))
         \o WireStart(S_sequence)
         \o WireAttr(FT_SizeT, S_maxsamples, EncodeUnsigned(MaxSamples, 4))
         \o WireAttr(FT_Long, S_sampleformat, EncodeSigned(shape.format, 4))
         \o WireAttr(FT_LongLong, S_numsamples, EncodeSigned(Layouts[shape.layout].n, 8))
         \o WireBlocks(Layouts[shape.layout].blocks, 1)
         \o WireEnd(S_sequence)
         \o WireEnd(S_waveclip)
         \o WireEnd(S_wavetrack)
         \o WireEnd(S_project)

\* The samples of a stored block: sample k of block id, each of the
\* DiskBytesPerSample bytes of the format.
StoredSamples(id, count, format) ==
    [i \in 1..(count * DiskBytesPerSample(format)) |-> ((id * 32 + i) % 255) + 1]

\* The derived length of the first block of the layout that has the id.
LayoutLength(layout, id) ==
    (CHOOSE the \in {
        Max((IF i < Len(layout.blocks) THEN layout.blocks[i + 1].start ELSE layout.n)
                - layout.blocks[i].start, 0) :
        i \in {CHOOSE j \in 1..Len(layout.blocks) :
                   /\ layout.blocks[j].id = id
                   /\ \A k \in 1..(j - 1) : layout.blocks[k].id # id} } : TRUE)

OtherFormat(format) == IF format = Float32 THEN Int16 ELSE Float32

\* The ids of the stored blocks that no waveblock names.
UnusedIds == {11}

FixedBefore(layout) == \E i \in 1..Len(layout.blocks) : layout.blocks[i].id < 0

\* The rows of sampleblocks of a project file.
StoreOf(shape) ==
    (CHOOSE the \in {
        [ id \in (referenced \ (IF shape.store = "missing7" THEN {7} ELSE {}))
                     \cup UnusedIds |->
            IF id \in UnusedIds
            THEN [sampleformat |-> shape.format,
                  samples |-> StoredSamples(id, MaxSamples, shape.format)]
            ELSE [sampleformat |-> IF shape.store = "mismatch8" /\ id = 8
                                   THEN OtherFormat(shape.format) ELSE shape.format,
                  samples |-> StoredSamples(id,
                                  IF shape.store = "short7" /\ id = 7
                                  THEN Max(LayoutLength(layout, id) - 1, 0)
                                  ELSE LayoutLength(layout, id),
                                  shape.format)] ] :
        layout \in {Layouts[shape.layout]},
        referenced \in {{ Layouts[shape.layout].blocks[i].id :
                             i \in 1..Len(Layouts[shape.layout].blocks) } \cap Nat} } : TRUE)

ProjFile(shape) ==
    (CHOOSE the \in {
        [exists |-> TRUE, corrupt |-> FALSE, integrity |-> TRUE,
         user_version |-> MaxSupportedVersion,
         tables |-> {"autosave", "project", "sampleblocks"},
         autosave |-> IF shape.autosave THEN row ELSE NoRow,
         project |-> row,
         sampleblocks |-> StoreOf(shape), lost |-> <<>>] :
        row \in {Row(ProjDict(FixedBefore(Layouts[shape.layout])), ProjDoc(shape))} } : TRUE)

DefaultConfig == [FreelistCorrupt |-> FALSE, AllowRecoveryFromConstructor |-> FALSE]

ProjInit ==
    /\ BufIdle
    /\ WavIdle
    /\ CodecIdle
    /\ \E shape \in ProjShapes :
           storage = [files |-> [p \in {ProjectPath, WritablePath} |->
                                    IF p = ProjectPath THEN ProjFile(shape) ELSE NoDbFile],
                      log |-> <<>>]
    /\ projectDatabase = NoDatabase
    /\ projectObj = NoProjectObj
    /\ clipFiles = <<>>
    /\ lastOp = NoOp
    /\ run = NoRun

ProjReady == projectObj.status = "ok" /\ lastOp.count < MaxProjOps

\* AudacityDatabase projectDatabase(projectPath) and
\* std::make_unique<AudacityProject>(projectDatabase)
ProjOpen ==
    /\ projectObj.status = "none"
    /\ \E ub \in UbChoices :
           \E d \in {AudacityDatabase_new(storage, DefaultConfig, ub)} :
               /\ d.ok
               /\ projectDatabase' = d.db
               /\ storage' = d.sys
               /\ projectObj' = AudacityProject_new(d.db, d.sys, ub)
    /\ lastOp' = [op |-> "open", count |-> 0]
    /\ UNCHANGED clipFiles
    /\ UNCHANGED projOthers

ProjValidate ==
    /\ ProjReady
    /\ lastOp' = [op |-> "validate", count |-> lastOp.count + 1,
                  result |-> AudacityProject_validateBlocks(projectObj.project,
                                                           projectDatabase, storage)]
    /\ UNCHANGED <<storage, projectDatabase, projectObj, clipFiles>>
    /\ UNCHANGED projOthers

ProjFixup ==
    /\ ProjReady
    /\ \E r \in {AudacityProject_fixupMissingBlocks(projectObj.project, projectDatabase,
                                                     storage)} :
           /\ projectObj' = [status |-> r.status, project |-> r.project]
           /\ projectDatabase' = r.db
           /\ storage' = r.sys
           /\ lastOp' = [op |-> "fixup", count |-> lastOp.count + 1,
                         missingBlocks |-> r.missingBlocks, before |-> projectObj.project]
    /\ UNCHANGED clipFiles
    /\ UNCHANGED projOthers

ProjCompact ==
    /\ ProjReady
    /\ \E r \in {AudacityProject_removeUnusedBlocks(projectObj.project, projectDatabase,
                                                     storage)} :
           /\ projectObj' = [projectObj EXCEPT !.status = r.status]
           /\ projectDatabase' = r.db
           /\ storage' = r.sys
    /\ lastOp' = [op |-> "compact", count |-> lastOp.count + 1,
                  before |-> DOMAIN storage.files[projectDatabase.mDatabase.path].sampleblocks]
    /\ UNCHANGED clipFiles
    /\ UNCHANGED projOthers

ProjExtractClips ==
    /\ ProjReady
    /\ \E ub \in UbChoices :
           \E r \in {AudacityProject_extractClips(projectObj.project, projectDatabase,
                                                  storage, ub)} :
               /\ clipFiles' = r.clips
               /\ projectObj' = [projectObj EXCEPT !.status = r.status]
    /\ lastOp' = [op |-> "extract", count |-> lastOp.count + 1]
    /\ UNCHANGED <<storage, projectDatabase>>
    /\ UNCHANGED projOthers

\* A fresh AudacityProject on the database fixupMissingBlocks saved to.
ProjReload ==
    /\ projectObj.status = "ok"
    /\ lastOp.op = "fixup"
    /\ lastOp.missingBlocks # {}
    /\ \E ub \in UbChoices :
           projectObj' = AudacityProject_new(projectDatabase, storage, ub)
    /\ lastOp' = [op |-> "reload", count |-> lastOp.count, missingBlocks |-> lastOp.missingBlocks,
                  before |-> lastOp.before, saved |-> projectObj.project]
    /\ UNCHANGED <<storage, projectDatabase, clipFiles>>
    /\ UNCHANGED projOthers

\* block.convertToSilence() on a block of a project just opened, then
\* SerializeProject of its tree and a Parse of the buffers written.
ProjConvert ==
    /\ ProjReady
    /\ lastOp.op = "open"
    /\ \E b \in 1..Len(projectObj.project.mWaveBlocks) :
           \E p \in {WaveBlock_convertToSilence(projectObj.project, b)} :
               \E r \in {SerializeProject(p.mReusableStringsCache, p.nodes, p.mProjectNode)} :
                   \E ub \in UbChoices :
                       \E ps \in {IF r.status = "ok"
                                  THEN Parse(ReadProjectBlob(
                                                 Buffer_getLinearRepresentation(r.first),
                                                 Buffer_getLinearRepresentation(r.second)),
                                             NewProject, ub)
                                  ELSE [status |-> r.status, handler |-> NewProject]} :
                           /\ projectObj' = [status |-> "ok", project |-> p]
                           /\ lastOp' = [op |-> "convert", count |-> lastOp.count + 1,
                                         block |-> b, before |-> projectObj.project,
                                         status |-> ps.status, after |-> ps.handler]
    /\ UNCHANGED <<storage, projectDatabase, clipFiles>>
    /\ UNCHANGED projOthers

ProjNext ==
    \/ ProjOpen
    \/ ProjValidate
    \/ ProjFixup
    \/ ProjCompact
    \/ ProjExtractClips
    \/ ProjReload
    \/ ProjConvert

SpecProject == ProjInit /\ [][ProjNext]_vars

(***************************************************************************)
(* Recovery harness: a project file with rows on pages no table owns, the  *)
(* database object of either form of the class, and recoverDatabase.       *)
(***************************************************************************)
\* The id column of a lost row as sqlite3 prints it: 7, 5735, -3,
\* 2147483647, 2147483648 and NULL.
IdTexts ==
    { <<55>>, <<53, 55, 51, 53>>, <<45, 51>>,
      <<50, 49, 52, 55, 52, 56, 51, 54, 52, 55>>,
      <<50, 49, 52, 55, 52, 56, 51, 54, 52, 56>>,
      Txt_NULL }

\* The columns c0.. of a lost row with nfield columns: the NULL of the
\* blockid alias, then the columns of sampleblocks as far as nfield goes.
LostFields(nfield, row) ==
    (CHOOSE the \in {
        IF nfield <= 8 THEN SubSeq(all, 1, nfield) ELSE all \o <<<<48>>>> :
        all \in {<<Txt_NULL>> \o Tail(BlockValues(<<>>, row))} } : TRUE)

\* The rows with the NULL of the blockid alias in c0, and rows whose id
\* column is NULL and whose c0 holds the key.
LostRows ==
    { [rootpgno |-> 99, pgno |-> 99, nfield |-> n, id |-> id,
       fields |-> LostFields(n, [sampleformat |-> f, samples |-> StoredSamples(7, 4, f)])] :
          n \in {7, 8, 9}, id \in IdTexts, f \in {Int16, Float32} }
    \cup
    { [rootpgno |-> 99, pgno |-> 99, nfield |-> 8, id |-> Txt_NULL,
       fields |-> <<<<55>>>> \o Tail(LostFields(8, [sampleformat |-> f,
                                                    samples |-> StoredSamples(7, 4, f)]))] :
          f \in {Int16, Float32} }

\* A second lost row, well formed, of block 11.
LostTail ==
    { <<>>,
      << [rootpgno |-> 99, pgno |-> 100, nfield |-> 8, id |-> <<49, 49>>,
          fields |-> LostFields(8, [sampleformat |-> Int16,
                                     samples |-> StoredSamples(11, 2, Int16)])] >> }

RecoverFiles ==
    { [ProjFile([format |-> Int16, layout |-> "tiled", trim |-> [rate |-> 4, left |-> 0, right |-> 0],
                 store |-> "missing7", autosave |-> FALSE])
          EXCEPT !.integrity = FALSE, !.lost = <<first>> \o rest, !.tables = tables] :
          first \in LostRows, rest \in LostTail,
          tables \in {{"autosave", "project", "sampleblocks"}, {"autosave", "project"}} }

\* The form of the class and its configuration; a file whose pragmas fail
\* with SQLITE_CORRUPT goes with the configuration that recovers from the
\* constructor.
RecoverApis ==
    { [api |-> "path", allow |-> FALSE], [api |-> "config", allow |-> FALSE],
      [api |-> "config", allow |-> TRUE] }

RecoverInit ==
    /\ BufIdle /\ WavIdle /\ CodecIdle
    /\ \E file \in RecoverFiles, a \in RecoverApis :
           /\ storage = [files |-> [p \in {ProjectPath, WritablePath} |->
                                       IF p = ProjectPath
                                       THEN [file EXCEPT !.corrupt = a.allow]
                                       ELSE NoDbFile],
                         log |-> <<>>]
           /\ lastOp = [op |-> "none", count |-> 0, api |-> a.api, allow |-> a.allow]
    /\ projectDatabase = NoDatabase
    /\ projectObj = NoProjectObj
    /\ clipFiles = <<>>
    /\ run = NoRun

\* AudacityDatabase projectDatabase(projectPath[, recoveryConfig])
RecoverOpen ==
    /\ lastOp.op = "none"
    /\ \E ub \in UbChoices :
           \E d \in {IF lastOp.api = "path" THEN AudacityDatabase_path(storage)
                      ELSE AudacityDatabase_new(storage,
                               [FreelistCorrupt |-> FALSE,
                                AllowRecoveryFromConstructor |-> lastOp.allow], ub)} :
               /\ projectDatabase' = d.db
               /\ storage' = d.sys
               /\ lastOp' = [lastOp EXCEPT !.op = IF d.ok THEN "open" ELSE "failed"]
    /\ UNCHANGED <<projectObj, clipFiles>>
    /\ UNCHANGED projOthers

\* projectDatabase.recoverDatabase(...)
RecoverRun ==
    /\ lastOp.op = "open"
    /\ \E r \in {IF lastOp.api = "path"
                  THEN AudacityDatabase_recoverDatabase_path(projectDatabase, storage)
                  ELSE AudacityDatabase_recoverDatabase(projectDatabase, storage)} :
           /\ projectDatabase' = r.db
           /\ storage' = r.sys
           /\ lastOp' = [op |-> "recover", count |-> 1, api |-> lastOp.api,
                         allow |-> lastOp.allow, ok |-> r.ok, executed |-> r.executed,
                         inConstructor |-> lastOp.api = "config"
                                           /\ projectDatabase.mRecoveredInConstructor]
    /\ UNCHANGED <<projectObj, clipFiles>>
    /\ UNCHANGED projOthers

RecoverNext ==
    \/ RecoverOpen
    \/ RecoverRun

SpecRecover == RecoverInit /\ [][RecoverNext]_vars

\* An order with recover_db before extract_project.
MainOrder_swapped ==
    << "drop_autosave", "check_integrity", "recover_db", "extract_project", "recover_project",
       "compact", "extract_clips", "extract_sample_blocks", "extract_as_mono_track",
       "extract_as_stereo_track" >>

(***************************************************************************)
(* main (main.cpp).  A run is the record `run`: the flags of the command   *)
(* line, pc (the operation main has come to, "exit" once main has          *)
(* returned or the process has ended), exit (the exit code), ran (the      *)
(* selected operations in the order they started), parse (how the          *)
(* construction of the AudacityProject ended), checked (what the integrity *)
(* check found), thrown (what left the operation that ended the run),      *)
(* files (the XML and WAV                                                  *)
(* files written by the operations of the database) and original (the      *)
(* project file as it was when the run began).                             *)
(***************************************************************************)
\* The if blocks of main, from top to bottom.
MainOrder ==
    << "drop_autosave", "check_integrity", "extract_project", "recover_db", "recover_project",
       "compact", "extract_clips", "extract_sample_blocks", "extract_as_mono_track",
       "extract_as_stereo_track" >>

Flags == { MainOrder[i] : i \in 1..Len(MainOrder) }

\* A CanContinueInFailedState that lets -compact continue as well.
CanContinueInFailedState_compact(flags) ==
    flags \cap {"extract_project", "recover_db", "recover_project", "extract_clips", "compact",
                "extract_sample_blocks", "extract_as_mono_track",
                "extract_as_stereo_track"} # {}

\* bool CanContinueInFailedState()
CanContinueInFailedState(flags) ==
    flags \cap {"extract_project", "recover_db", "recover_project", "extract_clips",
                "extract_sample_blocks", "extract_as_mono_track",
                "extract_as_stereo_track"} # {}

\* The loop of ExtractProjectXML that copies xmlText to the file in pieces
\* of writeBufferSize bytes.
RECURSIVE XmlFileLoop(_, _)
XmlFileLoop(xmlText, offset) ==
    (CHOOSE the \in {
        IF piece = <<>> THEN <<>> ELSE piece \o XmlFileLoop(xmlText, offset + Len(piece)) :
        piece \in {Buffer_read(xmlText, offset, ReadPiece)} } : TRUE)

\* void ExtractProjectXML(db, table, projectPath): status is how it ended
\* and files the file it wrote.
ExtractProjectXML(db, sys, table, ub) ==
    IF ~Sql_canRead(sys, db.mDatabase, table) \/ ~sys.files[db.mDatabase.path][table].present
    THEN [status |-> "throw", files |-> <<>>]
    ELSE (CHOOSE the \in {
        [status |-> ps.status,
         files |-> IF ps.status = "ok"
                   THEN << [path |-> <<ProjectPath, table, "xml">>,
                            data |-> XmlFileLoop(ps.handler.mBuffer, 0)] >>
                   ELSE <<>>] :
        ps \in { Parse(ReadProjectBlob(row.dict, row.doc), NewConverter, ub) :
                    row \in {sys.files[db.mDatabase.path][table]} } } : TRUE)

\* The rows of SELECT blockid, samples FROM sampleblocks, in the order of
\* the key.
SelectBlocks(db, sys) == Ascending(DOMAIN sys.files[db.mDatabase.path].sampleblocks)

\* void AudacityDatabase::extractSampleBlocks(format, sampleRate): one
\* file for every row, in directories of entriesPerDirectory files.
AudacityDatabase_extractSampleBlocks(db, sys, format, sampleRate) ==
    IF ~Sql_canRead(sys, db.mDatabase, "sampleblocks") THEN [status |-> "throw", files |-> <<>>]
    ELSE (CHOOSE the \in {
        [status |-> "ok",
         files |-> [i \in 1..Len(ids) |->
                       [path |-> <<"sampleblocks", (i - 1) \div (32 * 32),
                                   ((i - 1) \div 32) % 32, ids[i]>>,
                        data |-> WaveFile_writeFile(
                                     WaveFile_writeBlock(
                                         WaveFile_new(format, sampleRate, 1),
                                         sys.files[db.mDatabase.path].sampleblocks[ids[i]].samples,
                                         0))]]] :
        ids \in {SelectBlocks(db, sys)} } : TRUE)

\* The loop of extractTrack over the rows.
RECURSIVE ExtractTrackLoop(_, _, _, _, _)
ExtractTrackLoop(wave, blocks, ids, i, asStereo) ==
    IF i > Len(ids) THEN wave
    ELSE ExtractTrackLoop(
             WaveFile_writeBlock(wave, blocks[ids[i]].samples,
                                 IF asStereo /\ ids[i] % 2 = 0 THEN 1 ELSE 0),
             blocks, ids, i + 1, asStereo)

\* void AudacityDatabase::extractTrack(format, sampleRate, asStereo)
AudacityDatabase_extractTrack(db, sys, format, sampleRate, asStereo) ==
    IF ~Sql_canRead(sys, db.mDatabase, "sampleblocks") THEN [status |-> "throw", files |-> <<>>]
    ELSE (CHOOSE the \in {
        [status |-> "ok",
         files |-> << [path |-> <<IF asStereo THEN "stereo.wav" ELSE "mono.wav">>,
                       data |-> WaveFile_writeFile(w)] >>] :
        w \in {ExtractTrackLoop(WaveFile_new(format, sampleRate, IF asStereo THEN 2 ELSE 1),
                                sys.files[db.mDatabase.path].sampleblocks,
                                SelectBlocks(db, sys), 1, asStereo)} } : TRUE)

\* if (project == nullptr) project = std::make_unique<AudacityProject>(
\* projectDatabase);
MainProject(obj, db, sys, ub) ==
    IF obj.status # "none" THEN obj ELSE AudacityProject_new(db, sys, ub)

(***************************************************************************)
(* Main harness: a run of main on a project file, one action for the       *)
(* construction of the database and one for every if block.                *)
(***************************************************************************)
\* The command lines: at most two flags, or all of them.
FlagSets == { f \in SUBSET Flags : Cardinality(f) <= 2 } \cup {Flags}

MainBase ==
    ProjFile([format |-> Int16, layout |-> "tiled", trim |-> [rate |-> 4, left |-> 0, right |-> 0],
              store |-> "full", autosave |-> FALSE])

MainMissing ==
    ProjFile([format |-> Int16, layout |-> "tiled", trim |-> [rate |-> 4, left |-> 0, right |-> 0],
              store |-> "missing7", autosave |-> TRUE])

\* The project files: a healthy one; one with an autosave row and without
\* block 7; one that fails the integrity check and has block 7 on a lost
\* page; one whose pragmas fail; two whose project document is cut short;
\* one whose wavetrack has the text "x" for its rate; one of a later
\* version.
MainFiles ==
    [ healthy |-> MainBase,
      autosave |-> MainMissing,
      damaged |-> [MainMissing EXCEPT
                      !.integrity = FALSE, !.autosave = NoRow,
                      !.lost = << [rootpgno |-> 99, pgno |-> 99, nfield |-> 8, id |-> <<55>>,
                                   fields |-> LostFields(8, [sampleformat |-> Int16,
                                                 samples |-> StoredSamples(7, 4, Int16)])] >>],
      corrupt |-> [MainBase EXCEPT !.corrupt = TRUE, !.integrity = FALSE],
      cut |-> [MainBase EXCEPT !.integrity = FALSE,
                               !.project.doc = SubSeq(@, 1, Len(@) - 5)],
      half |-> [MainBase EXCEPT !.project.doc = SubSeq(@, 1, Len(@) \div 2)],
      badattr |-> [MainBase EXCEPT
                      !.project.doc =
                          WireStart(S_project)
                            \o WireStart(S_wavetrack)
                            \o WireAttr(FT_String, S_rate, WireString(<<120>>, 1, TRUE))
                            \o WireEnd(S_wavetrack)
                            \o WireEnd(S_project)],
      newer |-> [MainBase EXCEPT !.user_version = MaxSupportedVersion + 1] ]

MainInit ==
    /\ BufIdle /\ WavIdle /\ CodecIdle
    /\ \E shape \in DOMAIN MainFiles, flags \in FlagSets, path \in BOOLEAN :
           /\ path \/ Cardinality(flags) = 1
           /\ storage = [files |-> [p \in {ProjectPath, WritablePath} |->
                                       IF p = ProjectPath THEN MainFiles[shape] ELSE NoDbFile],
                         log |-> <<>>]
           /\ run = [pc |-> "start", flags |-> flags, path |-> path, exit |-> "none",
                     ran |-> <<>>, parse |-> "none", checked |-> "none", thrown |-> "none",
                     files |-> <<>>,
                     original |-> MainFiles[shape]]
    /\ projectDatabase = NoDatabase
    /\ projectObj = NoProjectObj
    /\ clipFiles = <<>>
    /\ lastOp = NoOp

\* The if block after the one of op, or the return 0 after the last.
MainAfter(r, op) ==
    (CHOOSE the \in {
        IF i = Len(MainOrder) THEN [r EXCEPT !.pc = "exit", !.exit = "0"]
        ELSE [r EXCEPT !.pc = MainOrder[i + 1]] :
        i \in {CHOOSE k \in 1..Len(MainOrder) : MainOrder[k] = op} } : TRUE)

\* A main without its catch block: whatever an operation throws, the next
\* if block follows.
MainEnd_swallow(r, op, status) ==
    [MainAfter(r, op) EXCEPT !.thrown = IF status = "ok" THEN @ ELSE status]

\* The end of an operation: the next if block, the catch block of main
\* (return -1), std::terminate, or undefined behaviour.
MainEnd(r, op, status) ==
    CASE status = "ok" -> MainAfter(r, op)
      [] status = "throw" -> [r EXCEPT !.pc = "exit", !.exit = "-1", !.thrown = status]
      [] status = "terminate" -> [r EXCEPT !.pc = "exit", !.exit = "abort", !.thrown = status]
      [] OTHER -> [r EXCEPT !.pc = "exit", !.exit = "ub", !.thrown = "ub"]

Started(r, op) == [r EXCEPT !.ran = Append(@, op)]

\* The usage checks, and AudacityDatabase projectDatabase(projectPath)
MainStart ==
    /\ run.pc = "start"
    /\ IF ~run.path
       THEN /\ run' = [run EXCEPT !.pc = "exit", !.exit = "1"]
            /\ UNCHANGED <<storage, projectDatabase>>
       ELSE \E d \in {AudacityDatabase_path(storage)} :
                /\ projectDatabase' = d.db
                /\ storage' = d.sys
                /\ run' = IF d.ok THEN [run EXCEPT !.pc = MainOrder[1]]
                          ELSE [run EXCEPT !.pc = "exit", !.exit = "-1", !.thrown = "throw"]
    /\ UNCHANGED <<projectObj, clipFiles>>
    /\ UNCHANGED mainOthers

\* if (FLAGS_drop_autosave)
MainDropAutosave ==
    /\ run.pc = "drop_autosave"
    /\ IF "drop_autosave" \notin run.flags
       THEN /\ run' = MainAfter(run, "drop_autosave")
            /\ UNCHANGED <<storage, projectDatabase>>
       ELSE \E r \in {AudacityDatabase_dropAutosave(projectDatabase, storage)} :
                /\ projectDatabase' = r.db
                /\ storage' = r.sys
                /\ run' = MainEnd(Started(run, "drop_autosave"), "drop_autosave",
                                  IF r.ok THEN "ok" ELSE "throw")
    /\ UNCHANGED <<projectObj, clipFiles>>
    /\ UNCHANGED mainOthers

\* if (FLAGS_check_integrity)
MainCheckIntegrity ==
    /\ run.pc = "check_integrity"
    /\ run' = IF "check_integrity" \notin run.flags THEN MainAfter(run, "check_integrity")
              ELSE IF AudacityDatabase_checkIntegrity(projectDatabase, storage)
              THEN MainAfter([Started(run, "check_integrity") EXCEPT !.checked = "passed"],
                             "check_integrity")
              ELSE IF ~CanContinueInFailedState(run.flags)
              THEN [Started(run, "check_integrity")
                       EXCEPT !.checked = "failed", !.pc = "exit", !.exit = "3"]
              ELSE MainAfter([Started(run, "check_integrity") EXCEPT !.checked = "failed"],
                             "check_integrity")
    /\ UNCHANGED <<storage, projectDatabase, projectObj, clipFiles>>
    /\ UNCHANGED mainOthers

\* if (FLAGS_extract_project)
MainExtractProject ==
    /\ run.pc = "extract_project"
    /\ IF "extract_project" \notin run.flags
       THEN run' = MainAfter(run, "extract_project")
       ELSE \E ub \in UbChoices :
                \E has \in {AudacityDatabase_hasAutosave(projectDatabase, storage)} :
                    \E first \in {IF has.ok /\ has.v
                                  THEN ExtractProjectXML(projectDatabase, storage,
                                                         "autosave", ub)
                                  ELSE [status |-> IF has.ok THEN "ok" ELSE "throw",
                                        files |-> <<>>]} :
                        \E second \in {IF first.status = "ok"
                                       THEN ExtractProjectXML(projectDatabase, storage,
                                                              "project", ub)
                                       ELSE first} :
                            run' = MainEnd([Started(run, "extract_project")
                                               EXCEPT !.files = @ \o first.files
                                                                  \o second.files],
                                           "extract_project", second.status)
    /\ UNCHANGED <<storage, projectDatabase, projectObj, clipFiles>>
    /\ UNCHANGED mainOthers

\* if (FLAGS_recover_db)
MainRecoverDb ==
    /\ run.pc = "recover_db"
    /\ IF "recover_db" \notin run.flags
       THEN /\ run' = MainAfter(run, "recover_db")
            /\ UNCHANGED <<storage, projectDatabase>>
       ELSE \E r \in {AudacityDatabase_recoverDatabase_path(projectDatabase, storage)} :
                /\ projectDatabase' = r.db
                /\ storage' = r.sys
                /\ run' = MainEnd(Started(run, "recover_db"), "recover_db",
                                  IF r.ok THEN "ok" ELSE "throw")
    /\ UNCHANGED <<projectObj, clipFiles>>
    /\ UNCHANGED mainOthers

\* if (FLAGS_recover_project)
MainRecoverProject ==
    /\ run.pc = "recover_project"
    /\ IF "recover_project" \notin run.flags
       THEN /\ run' = MainAfter(run, "recover_project")
            /\ UNCHANGED <<storage, projectDatabase, projectObj>>
       ELSE \E ub \in UbChoices :
                \E obj \in {MainProject(projectObj, projectDatabase, storage, ub)} :
                    IF obj.status # "ok"
                    THEN /\ projectObj' = obj
                         /\ run' = MainEnd([Started(run, "recover_project")
                                               EXCEPT !.parse = obj.status],
                                           "recover_project", obj.status)
                         /\ UNCHANGED <<storage, projectDatabase>>
                    ELSE \E r \in {AudacityProject_fixupMissingBlocks(
                                       obj.project, projectDatabase, storage)} :
                             /\ projectObj' = [status |-> "ok", project |-> r.project]
                             /\ projectDatabase' = r.db
                             /\ storage' = r.sys
                             /\ run' = MainEnd([Started(run, "recover_project")
                                                   EXCEPT !.parse = "ok"],
                                               "recover_project", r.status)
    /\ UNCHANGED clipFiles
    /\ UNCHANGED mainOthers

\* if (FLAGS_compact)
MainCompact ==
    /\ run.pc = "compact"
    /\ IF "compact" \notin run.flags
       THEN /\ run' = MainAfter(run, "compact")
            /\ UNCHANGED <<storage, projectDatabase, projectObj>>
       ELSE \E ub \in UbChoices :
                \E obj \in {MainProject(projectObj, projectDatabase, storage, ub)} :
                    IF obj.status # "ok"
                    THEN /\ projectObj' = obj
                         /\ run' = MainEnd([Started(run, "compact") EXCEPT !.parse = obj.status],
                                           "compact", obj.status)
                         /\ UNCHANGED <<storage, projectDatabase>>
                    ELSE \E r \in {AudacityProject_removeUnusedBlocks(
                                       obj.project, projectDatabase, storage)} :
                             /\ projectObj' = obj
                             /\ projectDatabase' = r.db
                             /\ storage' = r.sys
                             /\ run' = MainEnd([Started(run, "compact") EXCEPT !.parse = "ok"],
                                               "compact", r.status)
    /\ UNCHANGED clipFiles
    /\ UNCHANGED mainOthers

\* if (FLAGS_extract_clips)
MainExtractClips ==
    /\ run.pc = "extract_clips"
    /\ IF "extract_clips" \notin run.flags
       THEN /\ run' = MainAfter(run, "extract_clips")
            /\ UNCHANGED <<projectObj, clipFiles>>
       ELSE \E ub \in UbChoices :
                \E obj \in {MainProject(projectObj, projectDatabase, storage, ub)} :
                    IF obj.status # "ok"
                    THEN /\ projectObj' = obj
                         /\ run' = MainEnd([Started(run, "extract_clips")
                                               EXCEPT !.parse = obj.status],
                                           "extract_clips", obj.status)
                         /\ UNCHANGED clipFiles
                    ELSE \E r \in {AudacityProject_extractClips(
                                       obj.project, projectDatabase, storage, ub)} :
                             /\ projectObj' = obj
                             /\ clipFiles' = r.clips
                             /\ run' = MainEnd([Started(run, "extract_clips")
                                                   EXCEPT !.parse = "ok"],
                                               "extract_clips", r.status)
    /\ UNCHANGED <<storage, projectDatabase>>
    /\ UNCHANGED mainOthers

\* if (FLAGS_extract_sample_blocks); -sample_format and -sample_rate have
\* their defaults, "float" and 44100.
MainExtractSampleBlocks ==
    /\ run.pc = "extract_sample_blocks"
    /\ IF "extract_sample_blocks" \notin run.flags
       THEN run' = MainAfter(run, "extract_sample_blocks")
       ELSE \E r \in {AudacityDatabase_extractSampleBlocks(projectDatabase, storage,
                                                           Float32, 44100)} :
                run' = MainEnd([Started(run, "extract_sample_blocks")
                                   EXCEPT !.files = @ \o r.files],
                               "extract_sample_blocks", r.status)
    /\ UNCHANGED <<storage, projectDatabase, projectObj, clipFiles>>
    /\ UNCHANGED mainOthers

\* if (FLAGS_extract_as_mono_track)
MainExtractMono ==
    /\ run.pc = "extract_as_mono_track"
    /\ IF "extract_as_mono_track" \notin run.flags
       THEN run' = MainAfter(run, "extract_as_mono_track")
       ELSE \E r \in {AudacityDatabase_extractTrack(projectDatabase, storage,
                                                    Float32, 44100, FALSE)} :
                run' = MainEnd([Started(run, "extract_as_mono_track")
                                   EXCEPT !.files = @ \o r.files],
                               "extract_as_mono_track", r.status)
    /\ UNCHANGED <<storage, projectDatabase, projectObj, clipFiles>>
    /\ UNCHANGED mainOthers

\* if (FLAGS_extract_as_stereo_track)
MainExtractStereo ==
    /\ run.pc = "extract_as_stereo_track"
    /\ IF "extract_as_stereo_track" \notin run.flags
       THEN run' = MainAfter(run, "extract_as_stereo_track")
       ELSE \E r \in {AudacityDatabase_extractTrack(projectDatabase, storage,
                                                    Float32, 44100, TRUE)} :
                run' = MainEnd([Started(run, "extract_as_stereo_track")
                                   EXCEPT !.files = @ \o r.files],
                               "extract_as_stereo_track", r.status)
    /\ UNCHANGED <<storage, projectDatabase, projectObj, clipFiles>>
    /\ UNCHANGED mainOthers

MainNext ==
    \/ MainStart
    \/ MainDropAutosave
    \/ MainCheckIntegrity
    \/ MainExtractProject
    \/ MainRecoverDb
    \/ MainRecoverProject
    \/ MainCompact
    \/ MainExtractClips
    \/ MainExtractSampleBlocks
    \/ MainExtractMono
    \/ MainExtractStereo

SpecMain == MainInit /\ [][MainNext]_vars

(***************************************************************************)
(* Claims                                                                  *)
(***************************************************************************)
\* linearize()[from .. to) of the spec, 0-based half-open.
Slice(s, from, to) == SubSeq(s, from + 1, to)

\* C2: for offset in [0, N] and every len, Buffer::read copies exactly
\* linearize()[offset .. min(offset+len, N)] and returns that many bytes,
\* wherever the range lies relative to the chunk boundaries.
C2_ReadEqualsLinearSlice ==
    (lastRead.kind = "bytes" /\ lastRead.offset <= Buffer_getSize(buffer)) =>
        lastRead.data =
            Slice(Buffer_getLinearRepresentation(buffer), lastRead.offset,
                  Min(lastRead.offset + lastRead.size, Buffer_getSize(buffer)))

\* The largest per-channel buffer size of the WaveFile, max_c(s_c).
WavMaxSize == Buffer_getSize(waveFile.w.mChannels[MaxChannel(waveFile.w)])

\* C8: for C channels with per-channel buffer sizes s_c (any byte counts
\* writeBlock accepted), writeFile writes exactly C * max_c(s_c) data bytes
\* after the 44-byte header, Subchunk2Size is that number and ChunkSize is
\* 36 + Subchunk2Size.
C8_WavLength ==
    wavOut # NoFile =>
        /\ wavOut.headerBytes = 44
        /\ Len(wavOut.data) = waveFile.w.mNumChannels * WavMaxSize
        /\ wavOut.header.Subchunk2Size = Len(wavOut.data)
        /\ wavOut.header.ChunkSize = 36 + wavOut.header.Subchunk2Size

\* The project tree a handler holds, from its root.
ProjectTree(h) == TreeOf(h.nodes, h.mProjectNode)

\* C1: for a valid (dict, doc), parsing the blobs SerializeProject writes
\* for the parsed tree succeeds and yields a tree structurally equal to the
\* first: same tag names, attribute names, kinds and values, child order
\* and character data.
C1_RoundTrip ==
    codec.phase = "reparsed" =>
        /\ codec.status = "ok"
        /\ codec.second.mProjectNode # 0
        /\ ProjectTree(codec.second) = ProjectTree(codec.first)

(***************************************************************************)
(* The project operations.                                                 *)
(***************************************************************************)
\* The rows of sampleblocks of the file the database is connected to.
StoreAt == storage.files[projectDatabase.mDatabase.path].sampleblocks

Blocks(p) == 1..Len(p.mWaveBlocks)

NonSilent(p) == { b \in Blocks(p) : p.mWaveBlocks[b].mBlockId >= 0 }

\* The non-silent ids some WaveBlock of the project references.
ReferencedIds(p) == { p.mWaveBlocks[b].mBlockId : b \in NonSilent(p) }

\* length(block_i) = (i+1 < L ? blocks[i+1].start : num_samples) - blocks[i].start
DerivedLength(p, b) ==
    LET block == p.mWaveBlocks[b]
        sequence == p.mSequences[block.mParent]
        i == block.mParentIndex
    IN (IF i + 1 < Len(sequence.mBlocks)
        THEN p.mWaveBlocks[sequence.mBlocks[i + 2]].mStart
        ELSE sequence.mNumSamples) - block.mStart

\* C4: after removeUnusedBlocks the ids in sampleblocks are the ids that
\* were in the store before and that a non-silent WaveBlock references.
C4_CompactLeavesReferenced ==
    lastOp.op = "compact" =>
        /\ projectObj.status = "ok"
        /\ DOMAIN StoreAt = lastOp.before \cap ReferencedIds(projectObj.project)

\* C5 as stated: validateBlocks returns exactly the referenced non-silent
\* ids that have no row in sampleblocks.
C5_ValidateReturnsAbsent ==
    lastOp.op = "validate" =>
        lastOp.result = { id \in ReferencedIds(projectObj.project) : id \notin DOMAIN StoreAt }

\* The block has no row, or a row whose sampleformat is not the format of
\* the sequence that owns the block.
InvalidBlock(p, b) ==
    LET id == p.mWaveBlocks[b].mBlockId
    IN \/ id \notin DOMAIN StoreAt
       \/ StoreAt[id].sampleformat # p.mSequences[p.mWaveBlocks[b].mParent].mFormat

\* C5: validateBlocks returns exactly the ids of the non-silent blocks
\* that have no row in sampleblocks or a row of another sample format than
\* the owning sequence's.
C5_ValidateReturnsInvalid ==
    lastOp.op = "validate" =>
        lastOp.result =
            { projectObj.project.mWaveBlocks[b].mBlockId :
                  b \in { c \in NonSilent(projectObj.project) :
                              InvalidBlock(projectObj.project, c) } }

C5_Witness ==
    /\ lastOp.op = "validate"
    /\ \E id \in lastOp.result : id \in DOMAIN StoreAt
    /\ \E id \in ReferencedIds(projectObj.project) : id \notin lastOp.result

\* C6: convertToSilence of a block, SerializeProject and a fresh Parse
\* give a block at the same position with a negative block id and the
\* derived length the block had before.
C6_SilenceRoundTrip ==
    lastOp.op = "convert" =>
        /\ lastOp.status = "ok"
        /\ lastOp.block <= Len(lastOp.after.mWaveBlocks)
        /\ WaveBlock_isSilence(lastOp.after.mWaveBlocks[lastOp.block])
        /\ DerivedLength(lastOp.after, lastOp.block) = DerivedLength(lastOp.before, lastOp.block)

HasAttr(attributes, name) == \E i \in 1..Len(attributes) : attributes[i].Name = name

AttrValue(attributes, name) ==
    attributes[CHOOSE i \in 1..Len(attributes) :
                   /\ attributes[i].Name = name
                   /\ \A j \in 1..(i - 1) : attributes[j].Name # name].Value

\* The attributes other than blockid and badblock, each with its position.
OtherAttrs(attributes) ==
    { <<i, attributes[i]>> : i \in { j \in 1..Len(attributes) :
                                         attributes[j].Name \notin {S_blockid, S_badblock} } }

\* The blocks fixupMissingBlocks is to convert.
ToConvert(before, missingBlocks) ==
    { b \in NonSilent(before) : before.mWaveBlocks[b].mBlockId \in missingBlocks }

\* C7: fixupMissingBlocks gives every non-silent block whose id is in the
\* set validateBlocks returned the block id -(derived length) and, on its
\* tree node, blockid = that id and badblock = true; every other block,
\* node and attribute is as before.
C7_FixupFrame ==
    lastOp.op = "fixup" =>
        LET before == lastOp.before
            after == projectObj.project
            converted == ToConvert(before, lastOp.missingBlocks)
        IN /\ Len(after.mWaveBlocks) = Len(before.mWaveBlocks)
           /\ Len(after.nodes) = Len(before.nodes)
           /\ after.mProjectNode = before.mProjectNode
           /\ after.mSequences = before.mSequences
           /\ after.mClips = before.mClips
           /\ after.mWaveTracks = before.mWaveTracks
           /\ \A b \in Blocks(before) \ converted :
                  after.mWaveBlocks[b] = before.mWaveBlocks[b]
           /\ \A n \in 1..Len(before.nodes) :
                  (\A b \in converted : before.mWaveBlocks[b].mXMLNode # n)
                      => after.nodes[n] = before.nodes[n]
           /\ \A b \in converted :
                  LET n == before.mWaveBlocks[b].mXMLNode
                      new == after.nodes[n].Attributes
                      id == 0 - DerivedLength(before, b)
                  IN /\ after.mWaveBlocks[b] = [before.mWaveBlocks[b] EXCEPT !.mBlockId = id]
                     /\ after.nodes[n] = [before.nodes[n] EXCEPT !.Attributes = new]
                     /\ HasAttr(new, S_blockid)
                     /\ AttrValue(new, S_blockid) = [kind |-> "int64", bytes |-> EncodeSigned(id, 8)]
                     /\ HasAttr(new, S_badblock)
                     /\ AttrValue(new, S_badblock) = [kind |-> "bool", bytes |-> <<1>>]
                     /\ OtherAttrs(new) = OtherAttrs(before.nodes[n].Attributes)

\* Two blocks that share a missing id were converted, another block was not.
C7_Witness ==
    /\ lastOp.op = "fixup"
    /\ \E b, c \in ToConvert(lastOp.before, lastOp.missingBlocks) :
           /\ b # c
           /\ lastOp.before.mWaveBlocks[b].mBlockId = lastOp.before.mWaveBlocks[c].mBlockId
    /\ Blocks(lastOp.before) \ ToConvert(lastOp.before, lastOp.missingBlocks) # {}

\* The sum of getLength over the blocks of a sequence from position i on.
RECURSIVE SumLengths(_, _, _)
SumLengths(p, blocks, i) ==
    IF i > Len(blocks) THEN 0
    ELSE WaveBlock_getLength(p, blocks[i]) + SumLengths(p, blocks, i + 1)

\* The windows of the blocks of sequence s tile [0, num_samples): they
\* start at 0 and each ends where the next starts, the last at num_samples.
Tiles(p, s) ==
    LET sequence == p.mSequences[s]
        blocks == sequence.mBlocks
    IN IF blocks = <<>> THEN sequence.mNumSamples = 0
       ELSE /\ p.mWaveBlocks[blocks[1]].mStart = 0
            /\ \A i \in 1..Len(blocks) : DerivedLength(p, blocks[i]) >= 0

\* C9 as stated: the lengths of the blocks of a sequence sum to num_samples
\* when and only when the blocks tile [0, num_samples).
C9_SumIffTiles ==
    projectObj.status = "ok" =>
        \A s \in 1..Len(projectObj.project.mSequences) :
            (SumLengths(projectObj.project, projectObj.project.mSequences[s].mBlocks, 1)
                 = projectObj.project.mSequences[s].mNumSamples)
                <=> Tiles(projectObj.project, s)

\* C9: getLength is the derived length, and the lengths of the blocks of a
\* sequence sum to num_samples - blocks[0].start (to 0 when the sequence
\* has no block), whether the blocks tile or not.
C9_SumTelescopes ==
    projectObj.status = "ok" =>
        LET p == projectObj.project
        IN /\ \A b \in Blocks(p) : WaveBlock_getLength(p, b) = DerivedLength(p, b)
           /\ \A s \in 1..Len(p.mSequences) :
                  SumLengths(p, p.mSequences[s].mBlocks, 1) =
                      IF p.mSequences[s].mBlocks = <<>> THEN 0
                      ELSE p.mSequences[s].mNumSamples
                               - p.mWaveBlocks[p.mSequences[s].mBlocks[1]].mStart

\* A sequence whose blocks do not tile and whose lengths sum to num_samples,
\* and one whose first block starts late.
C9_Witness ==
    /\ projectObj.status = "ok"
    /\ \E s \in 1..Len(projectObj.project.mSequences) :
           /\ projectObj.project.mSequences[s].mBlocks # <<>>
           /\ ~Tiles(projectObj.project, s)
           /\ SumLengths(projectObj.project, projectObj.project.mSequences[s].mBlocks, 1)
                  = projectObj.project.mSequences[s].mNumSamples

\* Sample k of a stored block as the WAV holds it: the first
\* BytesPerSample bytes of its DiskBytesPerSample bytes in the row.
WireSample(blob, k, format) ==
    SubSeq(blob, k * DiskBytesPerSample(format) + 1,
           k * DiskBytesPerSample(format) + BytesPerSample(format))

RECURSIVE WireSamples(_, _, _, _)
WireSamples(blob, from, to, format) ==
    IF from >= to THEN <<>>
    ELSE WireSample(blob, from, format) \o WireSamples(blob, from + 1, to, format)

\* What block b contributes to a clip whose window is [first, last).
ExpectedOfBlock(p, b, first, last, format) ==
    LET block == p.mWaveBlocks[b]
        from == Max(block.mStart, first)
        to == Min(block.mStart + DerivedLength(p, b), last)
    IN IF to <= from THEN <<>>
       ELSE IF block.mBlockId < 0
       THEN [i \in 1..((to - from) * BytesPerSample(format)) |-> 0]
       ELSE WireSamples(StoreAt[block.mBlockId].samples, from - block.mStart,
                        to - block.mStart, format)

RECURSIVE ExpectedOfBlocks(_, _, _, _, _, _)
ExpectedOfBlocks(p, blocks, i, first, last, format) ==
    IF i > Len(blocks) THEN <<>>
    ELSE ExpectedOfBlock(p, blocks[i], first, last, format)
             \o ExpectedOfBlocks(p, blocks, i + 1, first, last, format)

RECURSIVE ExpectedOfSequences(_, _, _)
ExpectedOfSequences(p, c, i) ==
    LET clip == p.mClips[c]
        track == p.mWaveTracks[clip.mParent]
        sequence == p.mSequences[clip.mSequences[i]]
    IN IF i > Len(clip.mSequences) THEN <<>>
       ELSE ExpectedOfBlocks(p, sequence.mBlocks, 1,
                             Llrint(clip.mTrimLeft, track.mRate),
                             sequence.mNumSamples - Llrint(clip.mTrimRight, track.mRate),
                             track.mSampleFormat)
                \o ExpectedOfSequences(p, c, i + 1)

\* Every non-silent block has a row of the format of its sequence that
\* holds all its samples.
StoreComplete(p) ==
    \A b \in NonSilent(p) :
        /\ ~InvalidBlock(p, b)
        /\ Len(StoreAt[p.mWaveBlocks[b].mBlockId].samples) >=
               DerivedLength(p, b) * DiskBytesPerSample(p.mSequences[p.mWaveBlocks[b].mParent].mFormat)

\* The bytes extractClips appended to the channel of the WAV of clip c.
ClipData(c) == Buffer_getLinearRepresentation(clipFiles[c].waveFile.mChannels[1])

\* C10: for trims >= 0 the samples extractClips appends to the WAV of a
\* clip are, block by block, the part of each block's window inside the
\* clip's window: the stored samples from that offset for a non-silent
\* block, zeros for a silent one.
C10_ClipWindow ==
    (/\ lastOp.op = "extract"
     /\ StoreComplete(projectObj.project)
     /\ \A c \in 1..Len(projectObj.project.mClips) :
            /\ projectObj.project.mClips[c].mTrimLeft >= 0
            /\ projectObj.project.mClips[c].mTrimRight >= 0)
        => /\ projectObj.status = "ok"
           /\ Len(clipFiles) = Len(projectObj.project.mClips)
           /\ \A c \in 1..Len(clipFiles) :
                  ClipData(c) = ExpectedOfSequences(projectObj.project, c, 1)

(***************************************************************************)
(* The dictionary, the parser's errors and its events.                     *)
(***************************************************************************)
\* The names of a tree: the tag name of every node and the name of every
\* attribute.
TreeNames(h) ==
    { h.nodes[n].TagName : n \in 1..Len(h.nodes) }
        \cup UNION { { h.nodes[n].Attributes[a].Name : a \in 1..Len(h.nodes[n].Attributes) } :
                         n \in 1..Len(h.nodes) }

\* C11: after Parse has built the project tree, every node's tag name and
\* every attribute name of the tree is an entry of the reusable string
\* pool, and SerializeProject of that tree finds every name.
C11_DictionaryComplete ==
    (codec.phase = "parsed" /\ codec.status = "ok") =>
        /\ \A name \in TreeNames(codec.first) :
               Contains(codec.first.mReusableStringsCache, name)
        /\ SerializeProject(codec.first.mReusableStringsCache, codec.first.nodes,
                            codec.first.mProjectNode).status = "ok"

\* A parsed tree of three nodes whose root has two attributes.
C11_Witness ==
    /\ codec.phase = "parsed"
    /\ codec.status = "ok"
    /\ Len(codec.first.nodes) = 3
    /\ Len(codec.first.nodes[codec.first.mProjectNode].Attributes) = 2
    /\ Cardinality(TreeNames(codec.first)) = 4

\* The number of bytes of the first i records of a stream.
EndOf(recs, i) == Len(WireOf(SubSeq(recs, 1, i)))

\* The number of records that lie wholly in the first cut bytes.
CompleteRecords(recs, cut) ==
    CHOOSE i \in 0..Len(recs) :
        /\ EndOf(recs, i) <= cut
        /\ i < Len(recs) => EndOf(recs, i + 1) > cut

\* The cut falls inside a record: a fixed-width payload or a string (a
\* skipped one and the digits of a float or double included) extends past
\* the end of the buffer.
CutInsideRecord(recs, cut) == EndOf(recs, CompleteRecords(recs, cut)) # cut

\* C14: Parse raises an error on a CharSize record whose width is not 1, 2
\* or 4, wherever the record stands in the stream and whatever follows it.
C14_BadCharSizeRaises ==
    (codec.phase = "read" /\ codec.bad) => codec.status = "throw"

IsAttr(r) == r.op \in {"Scalar", "String"}

IsFlush(r) == r.op \in {"Start", "End", "Data"}

\* The string a stream gives an id: the text of the Name record of the id.
NameOfId(recs, id) ==
    recs[CHOOSE i \in 1..Len(recs) : recs[i].op = "Name" /\ recs[i].id = id].text

\* The value an attribute record carries: the alternative and its bytes;
\* all but the length of a string when the stream spans several chunks.
ValueOfRecord(r, chunked) ==
    CASE r.op = "String" ->
             [kind |-> "string", bytes |-> IF chunked THEN <<Len(r.text)>> ELSE r.text]
      [] r.code = FT_Bool -> [kind |-> "bool", bytes |-> <<1>>]
      [] r.code = FT_Int -> [kind |-> "int32", bytes |-> EncodeSigned(-5, 4)]
      [] r.code = FT_Long -> [kind |-> "int32", bytes |-> EncodeSigned(70000, 4)]
      [] r.code = FT_LongLong -> [kind |-> "int64", bytes |-> EncodeSigned(-3, 8)]
      [] r.code = FT_SizeT -> [kind |-> "uint32", bytes |-> EncodeUnsigned(44100, 4)]
      [] r.code = FT_Float -> [kind |-> "float", bytes |-> <<0, 0, 128, 63>>]
      [] r.code = FT_Double -> [kind |-> "double", bytes |-> DoubleBytes(6)]

\* The attribute records from record j up to the next StartTag, EndTag or
\* Data record, in wire order.
RECURSIVE AttrsUpTo(_, _, _)
AttrsUpTo(recs, j, chunked) ==
    IF j > Len(recs) \/ IsFlush(recs[j]) THEN <<>>
    ELSE (IF IsAttr(recs[j])
          THEN << [Name |-> NameOfId(recs, recs[j].id),
                   Value |-> ValueOfRecord(recs[j], chunked)] >>
          ELSE <<>>)
             \o AttrsUpTo(recs, j + 1, chunked)

\* The record sequence with the attributes folded into their start tag.
RECURSIVE EventsOf(_, _, _)
EventsOf(recs, i, chunked) ==
    IF i > Len(recs) THEN <<>>
    ELSE (CASE recs[i].op = "Start" ->
                   << [ev |-> "start", name |-> NameOfId(recs, recs[i].id),
                       attrs |-> AttrsUpTo(recs, i + 1, chunked), text |-> <<>>] >>
            [] recs[i].op = "End" ->
                   << [ev |-> "end", name |-> NameOfId(recs, recs[i].id),
                       attrs |-> <<>>, text |-> <<>>] >>
            [] recs[i].op = "Data" ->
                   << [ev |-> "data", name |-> <<>>, attrs |-> <<>>, text |-> recs[i].text] >>
            [] OTHER -> <<>>)
             \o EventsOf(recs, i + 1, chunked)

\* The events that built a tree: the start of a node, its character data,
\* its children in order, its end.
RECURSIVE TreeEvents(_, _), ChildEvents(_, _, _)
TreeEvents(tree, chunked) ==
    << [ev |-> "start", name |-> tree.TagName,
        attrs |-> [a \in 1..Len(tree.Attributes) |->
                       [Name |-> tree.Attributes[a].Name,
                        Value |-> IF chunked /\ tree.Attributes[a].Value.kind = "string"
                                  THEN [kind |-> "string",
                                        bytes |-> <<Len(tree.Attributes[a].Value.bytes)>>]
                                  ELSE tree.Attributes[a].Value]],
        text |-> <<>>] >>
        \o (IF tree.Data = <<>> THEN <<>>
            ELSE << [ev |-> "data", name |-> <<>>, attrs |-> <<>>, text |-> tree.Data] >>)
        \o ChildEvents(tree.Children, 1, chunked)
        \o << [ev |-> "end", name |-> tree.TagName, attrs |-> <<>>, text |-> <<>>] >>

ChildEvents(children, i, chunked) ==
    IF i > Len(children) THEN <<>>
    ELSE TreeEvents(children[i], chunked) \o ChildEvents(children, i + 1, chunked)

\* The events the project received, read from the tree it built.
Received(h, chunked) ==
    IF h.mProjectNode = 0 THEN <<>> ELSE TreeEvents(ProjectTree(h), chunked)

Chunked(recs) == Len(WireOf(recs)) > BUFFER_SIZE

IsStartOrData(e) == e.ev # "end"

\* The attribute a float or double record adds before its digits are
\* skipped: the record after the complete ones, when the cut leaves its
\* value whole.
ValueBeforeDigits(recs, cut) ==
    LET m == CompleteRecords(recs, cut) + 1
    IN IF /\ m <= Len(recs)
          /\ recs[m].op = "Scalar"
          /\ recs[m].code \in {FT_Float, FT_Double}
          /\ cut >= EndOf(recs, m - 1) + 3 + (IF recs[m].code = FT_Float THEN 4 ELSE 8)
       THEN << [recs[m] EXCEPT !.op = "Scalar"] >>
       ELSE <<>>

\* C15: when a record's fixed-width payload or a string's declared length
\* extends past the end of the buffer, Parse raises an error and the sink
\* has received the start tags, attributes and character data of the
\* records that precede the cut and nothing else: no event holds a value
\* built from bytes that are missing.
C15_TruncationRaises ==
    (codec.phase = "read" /\ ~codec.bad /\ CutInsideRecord(codec.recs, codec.cut)) =>
        /\ codec.status = "throw"
        /\ SelectSeq(Received(codec.first, Chunked(codec.recs)), IsStartOrData)
               = SelectSeq(EventsOf(SubSeq(codec.recs, 1,
                                           CompleteRecords(codec.recs, codec.cut))
                                        \o ValueBeforeDigits(codec.recs, codec.cut),
                                    1, Chunked(codec.recs)),
                           IsStartOrData)

\* A stream cut inside the digits of a double, after two attributes of an
\* open tag were read.
C15_Witness ==
    /\ codec.phase = "read"
    /\ ~codec.bad
    /\ CutInsideRecord(codec.recs, codec.cut)
    /\ ValueBeforeDigits(codec.recs, codec.cut) # <<>>
    /\ codec.first.mProjectNode # 0
    /\ Len(codec.first.nodes[codec.first.mProjectNode].Attributes) = 2

\* C20: for every StartTag record the sink receives one tag-start event
\* carrying the attribute records between that StartTag and the next
\* StartTag, EndTag or Data record, in wire order, before the event of
\* that next record: the events received are the record sequence with the
\* attributes folded into their start tag.
C20_AttributesCollated ==
    (codec.phase = "read" /\ ~codec.bad /\ codec.cut = Len(WireOf(codec.recs))) =>
        /\ codec.status = "ok"
        /\ Received(codec.first, Chunked(codec.recs))
               = EventsOf(codec.recs, 1, Chunked(codec.recs))

\* A complete stream whose second start tag is followed by a skipped
\* string, an attribute and character data.
C20_Witness ==
    /\ codec.phase = "read"
    /\ ~codec.bad
    /\ codec.cut = Len(WireOf(codec.recs))
    /\ codec.status = "ok"
    /\ Len(codec.first.nodes) = 3
    /\ Len(codec.first.nodes[2].Attributes) = 1
    /\ codec.first.nodes[2].Data # <<>>

(***************************************************************************)
(* Failures of single blocks.                                              *)
(***************************************************************************)
\* The blocks of the project whose row is absent, of another format than
\* the sequence, or shorter than the samples the block covers.
FailingBlocks(p) ==
    { b \in NonSilent(p) :
          \/ InvalidBlock(p, b)
          \/ Len(StoreAt[p.mWaveBlocks[b].mBlockId].samples) <
                 DerivedLength(p, b)
                     * DiskBytesPerSample(p.mSequences[p.mWaveBlocks[b].mParent].mFormat) }

\* C16: a block that is missing, truncated or of mismatching format never
\* ends extractClips or validateBlocks: extractClips returns normally with
\* a WAV file for every clip, validateBlocks returns its set.
C16_BlockFailuresNotFatal ==
    /\ (lastOp.op = "extract" /\ FailingBlocks(projectObj.project) # {}) =>
           /\ projectObj.status = "ok"
           /\ \A c \in 1..Len(projectObj.project.mClips) :
                  \E k \in 1..Len(clipFiles) : clipFiles[k].clip = c
    /\ (lastOp.op = "validate" /\ FailingBlocks(projectObj.project) # {}) =>
           projectObj.status = "ok"

(***************************************************************************)
(* Database recovery.                                                      *)
(***************************************************************************)
\* The lost rows of the original file, in the order sqlite3 prints them.
LostOf == storage.files[ProjectPath].lost

IsRewritten(e) == StartsWith(e.line, Txt_replace)

\* The lines given to exec that the rewrite has made, in order.
Rewritten == SelectSeq(lastOp.executed, IsRewritten)

\* The line the rewrite is to make of a lost row: the id, then the fields
\* after the NULL token as sqlite3 printed them.
ExpectedLine(lost) ==
    Txt_replace \o lost.id \o <<44, 32>> \o JoinValues(Tail(lost.fields)) \o Txt_close

\* recoverDatabase has run its loop in this state.
Recovered == lastOp.op = "recover" /\ ~lastOp.inConstructor

\* The loop comes to the j-th lost row: the rows before it have eight
\* fields and their statements did not end the loop.
LoopReaches(j) ==
    \A i \in 1..(j - 1) :
        /\ LostOf[i].nfield = 8
        /\ Len(Rewritten) >= i
        /\ (Rewritten[i].ok \/ lastOp.api = "config")

\* C18: every lost_and_found INSERT with n_fields = 8 that the loop comes
\* to is given to exec as INSERT OR REPLACE INTO sampleblocks (...) with
\* the row's id first and then the fields after the NULL token, unchanged
\* and in order; one with another n_fields ends recoverDatabase with an
\* error and is not executed.
C18_LostRowsRewritten ==
    Recovered =>
        \A j \in 1..Len(LostOf) :
            LoopReaches(j) =>
                IF LostOf[j].nfield = 8
                THEN /\ Len(Rewritten) >= j
                     /\ (LostOf[j].fields[1] = Txt_NULL /\ LostOf[j].id # Txt_NULL)
                            => Rewritten[j].line = ExpectedLine(LostOf[j])
                ELSE ~lastOp.ok /\ Len(Rewritten) = j - 1

\* The lines sqlite3 printed for the original file.
OutputLines == RecoverOutput(storage.files[ProjectPath])

\* Every lost row is one the rewrite accepts.
LostRowsAccepted ==
    \A j \in 1..Len(LostOf) : RecoverLine(LostLine(LostOf[j])).op = "exec"

\* C19: a statement that fails in the recovered database is skipped, not
\* fatal: when the rewrite accepts every lost row, recoverDatabase
\* completes and every line other than BEGIN, COMMIT and the
\* lost_and_found lines has been given to exec as received, the lines after
\* a failed statement included.
C19_FailedStatementSkipped ==
    (Recovered /\ LostRowsAccepted) =>
        /\ lastOp.ok
        /\ \A i \in 1..Len(OutputLines) :
               (/\ Str_find(OutputLines[i], Txt_BEGIN, 0) = Npos
                /\ Str_find(OutputLines[i], Txt_COMMIT, 0) = Npos
                /\ Str_find(OutputLines[i], Txt_lost_and_found, 0) = Npos)
                   => \E k \in 1..Len(lastOp.executed) :
                          lastOp.executed[k].line = OutputLines[i]

(***************************************************************************)
(* The command line: the order of the operations, the exit codes, the      *)
(* original file.                                                          *)
(***************************************************************************)
\* The order the operations are to run in.
ClaimedOrder ==
    << "drop_autosave", "check_integrity", "extract_project", "recover_db", "recover_project",
       "compact", "extract_clips", "extract_sample_blocks", "extract_as_mono_track",
       "extract_as_stereo_track" >>

OrderIndex(op) == CHOOSE k \in 1..Len(ClaimedOrder) : ClaimedOrder[k] = op

RanSet == { run.ran[i] : i \in 1..Len(run.ran) }

\* C12: the selected operations run in the fixed order drop_autosave,
\* check_integrity, extract_project, recover_db, recover_project, compact,
\* extract_clips, extract_sample_blocks, extract_as_mono_track,
\* extract_as_stereo_track: only selected operations start, each at most
\* once, in this order; when main comes to an operation every selected
\* operation before it in the order has run; a run that returns 0 has run
\* every selected operation.
C12_FixedOrder ==
    /\ RanSet \subseteq run.flags
    /\ \A i, j \in 1..Len(run.ran) :
           i < j => OrderIndex(run.ran[i]) < OrderIndex(run.ran[j])
    /\ run.pc \in Flags =>
           \A op \in run.flags : OrderIndex(op) < OrderIndex(run.pc) => op \in RanSet
    /\ run.exit = "0" => RanSet = run.flags

C12_Witness ==
    /\ run.exit = "0"
    /\ run.flags = Flags
    /\ run.ran = ClaimedOrder

\* The flags that let a run go on after a failed integrity check.
FollowingFlags ==
    {"extract_project", "recover_db", "recover_project", "extract_clips",
     "extract_sample_blocks", "extract_as_mono_track", "extract_as_stereo_track"}

TreeMutations ==
    {"INSERT OR REPLACE INTO autosave(id, dict, doc)",
     "INSERT OR REPLACE INTO project(id, dict, doc)",
     "DELETE FROM sampleblocks WHERE blockid = ?"}

\* C17: when the construction of the AudacityProject ends with an error
\* of Parse, the run is over with an exit code other than 0 and neither
\* the INSERT OR REPLACE of saveProject nor a deletion of a block has been
\* executed.
C17_NoMutationAfterParseError ==
    run.parse \in {"throw", "terminate"} =>
        /\ run.pc = "exit"
        /\ run.exit \in {"-1", "abort"}
        /\ \A i \in 1..Len(storage.log) : storage.log[i].sql \notin TreeMutations

C17_Witness ==
    /\ run.parse = "terminate"
    /\ run.flags = {"recover_project", "compact"}
    /\ run.exit = "abort"

\* C3: the original file is never modified: it is what it was when the
\* run began, and every statement that changes a database has been
\* executed on a read-write connection to the sibling path.
C3_OriginalNeverModified ==
    /\ run.pc # "none" => storage.files[ProjectPath] = run.original
    /\ \A i \in 1..Len(storage.log) :
           storage.log[i].path = WritablePath /\ storage.log[i].mode = "rw"

C3_Witness ==
    /\ run.exit = "0"
    /\ run.flags = {"drop_autosave", "compact"}
    /\ \E i \in 1..Len(storage.log) : storage.log[i].sql = "DELETE FROM autosave WHERE id = 1"
    /\ \E i \in 1..Len(storage.log) :
           storage.log[i].sql = "DELETE FROM sampleblocks WHERE blockid = ?"
    /\ run.original.autosave.present
    /\ ~storage.files[WritablePath].autosave.present

(***************************************************************************)
(* The dictionary of names.                                                *)
(***************************************************************************)
\* The string the stream gives an id at record j: the text of the last
\* Name record of the id before j; the empty string when there is none.
NameAt(recs, j, id) ==
    LET defs == { i \in 1..(j - 1) : recs[i].op = "Name" /\ recs[i].id = id }
    IN IF defs = {} THEN <<>>
       ELSE recs[CHOOSE i \in defs : \A k \in defs : k <= i].text

RECURSIVE NamedAttrsUpTo(_, _)
NamedAttrsUpTo(recs, j) ==
    IF j > Len(recs) \/ IsFlush(recs[j]) THEN <<>>
    ELSE (IF IsAttr(recs[j])
          THEN << [Name |-> NameAt(recs, j, recs[j].id),
                   Value |-> ValueOfRecord(recs[j], FALSE)] >>
          ELSE <<>>)
             \o NamedAttrsUpTo(recs, j + 1)

\* The events of a stream, each id resolved where its record stands.
RECURSIVE NamedEventsOf(_, _)
NamedEventsOf(recs, i) ==
    IF i > Len(recs) THEN <<>>
    ELSE (CASE recs[i].op = "Start" ->
                   << [ev |-> "start", name |-> NameAt(recs, i, recs[i].id),
                       attrs |-> NamedAttrsUpTo(recs, i + 1), text |-> <<>>] >>
            [] recs[i].op = "End" ->
                   << [ev |-> "end", name |-> NameAt(recs, i, recs[i].id),
                       attrs |-> <<>>, text |-> <<>>] >>
            [] recs[i].op = "Data" ->
                   << [ev |-> "data", name |-> <<>>, attrs |-> <<>>, text |-> recs[i].text] >>
            [] OTHER -> <<>>)
             \o NamedEventsOf(recs, i + 1)

\* The start tags of the events, with their attributes.
IsStart(e) == e.ev = "start"

\* C21: for any interleaving of Name records with element records, a
\* Name that redefines an id and Names whose ids do not ascend included,
\* every StartTag, EndTag and attribute record resolves its id to the
\* string of the most recent Name record of that id, and a Name record of
\* one id leaves the entries of the other ids as they were: the parse
\* ends without an error and the start tags the project received carry the
\* names and attribute names the stream gave the ids where the records
\* stand.
C21_NamesResolve ==
    codec.phase = "named" =>
        /\ codec.status = "ok"
        /\ SelectSeq(Received(codec.first, FALSE), IsStart)
               = SelectSeq(NamedEventsOf(codec.recs, 1), IsStart)

(***************************************************************************)
(* The XML writer.                                                         *)
(***************************************************************************)
\* The number of elements open after the first i events.
RECURSIVE OpenAfter(_, _)
OpenAfter(events, i) ==
    IF i = 0 THEN 0
    ELSE OpenAfter(events, i - 1)
             + (CASE events[i].ev = "start" -> 1
                  [] events[i].ev = "end" -> 0 - 1
                  [] OTHER -> 0)

\* What the tag-end at event i is to write: " />" when it closes the start
\* tag just before it, else "</name>" at the indentation of its start tag.
ClosingOf(events, i) ==
    IF events[i - 1].ev = "start" THEN X_empty_end
    ELSE [k \in 1..(2 * (OpenAfter(events, i - 1) - 1)) |-> 32]
             \o X_lt_slash \o events[i].name \o X_gt_nl

\* C22: the writer emits " />" for a tag-end exactly when the tag-end
\* closes the start tag just opened, with no element and no character data
\* between them; for every other tag-end of a balanced event sequence it
\* emits "</name>" at the indentation of the matching start tag.
C22_LeafCollapse ==
    codec.phase = "xml" =>
        \A i \in 1..codec.done :
            codec.events[i].ev = "end" => codec.pieces[i] = ClosingOf(codec.events, i)

\* What the claimed filter keeps of a byte: backspace is copied.
ClaimedChar(ch) ==
    CASE ch = 38 -> X_amp
      [] ch = 39 -> X_apos
      [] ch = 34 -> X_quot
      [] ch = 60 -> X_lt_ent
      [] ch = 62 -> X_gt_ent
      [] OTHER -> IF ch >= 32 \/ ch \in {8, 9, 10, 13} THEN <<ch>> ELSE <<>>

\* What the filter keeps of a byte: backspace is dropped.
FilteredChar(ch) ==
    CASE ch = 38 -> X_amp
      [] ch = 39 -> X_apos
      [] ch = 34 -> X_quot
      [] ch = 60 -> X_lt_ent
      [] ch = 62 -> X_gt_ent
      [] OTHER -> IF ch >= 32 \/ ch \in {9, 10, 13} THEN <<ch>> ELSE <<>>

RECURSIVE ClaimedText(_, _), FilteredText(_, _)
ClaimedText(data, i) ==
    IF i > Len(data) THEN <<>> ELSE ClaimedChar(data[i]) \o ClaimedText(data, i + 1)

FilteredText(data, i) ==
    IF i > Len(data) THEN <<>> ELSE FilteredChar(data[i]) \o FilteredText(data, i + 1)

\* C23 as stated: of every byte of character data the writer writes the
\* entity of & ' " < >, the byte itself when it is 0x20 or more or a tab,
\* LF, CR or backspace, and nothing for any other byte below 0x20.
C23_CharDataKeepsBackspace ==
    codec.phase = "xml" =>
        \A i \in 1..codec.done :
            codec.events[i].ev = "data"
                => codec.pieces[i] = ClaimedText(codec.events[i].text, 1)

\* C23: of every byte of character data the writer writes the entity of
\* & ' " < >, the byte itself when it is 0x20 or more or a tab, LF or CR,
\* and nothing for any other byte below 0x20, backspace included.
C23_CharDataFiltered ==
    codec.phase = "xml" =>
        \A i \in 1..codec.done :
            codec.events[i].ev = "data"
                => codec.pieces[i] = FilteredText(codec.events[i].text, 1)

\* Character data with a backspace, a tab, another control byte, the five
\* escaped characters and a byte above 0x7F has been written.
C23_Witness ==
    /\ codec.phase = "xml"
    /\ codec.done = 2
    /\ codec.events[2].ev = "data"
    /\ codec.events[2].text = <<104, 8, 60, 9, 105, 31, 38, 34, 39, 62, 200>>
    /\ codec.pieces[2] = <<104>> \o X_lt_ent \o <<9, 105>> \o X_amp \o X_quot \o X_apos
                             \o X_gt_ent \o <<200>>

(***************************************************************************)
(* The interleaving of the channels.                                       *)
(***************************************************************************)
\* The bytes of sample s of channel c as the frame is to hold them: the
\* channel's own bytes when it holds the whole sample, else zero bytes.
FrameSlot(w, c, s, bps) ==
    IF Buffer_getSize(w.mChannels[c]) >= (s + 1) * bps
    THEN SubSeq(Buffer_getLinearRepresentation(w.mChannels[c]), s * bps + 1, (s + 1) * bps)
    ELSE [i \in 1..bps |-> 0]

\* C24: with max_samples the largest channel size divided by the bytes of
\* a sample, writeFile writes, for each sample index below max_samples and
\* each channel in order, the channel's bytes of that sample when the
\* channel holds them and zero bytes when the channel is shorter; no byte
\* of an earlier frame stands in for missing data.
C24_ZeroFill ==
    wavOut # NoFile =>
        LET w == waveFile.w
            bps == BytesPerSample(w.mFmt)
            maxSamples == WavMaxSize \div bps
        IN /\ Len(wavOut.data) = maxSamples * w.mNumChannels * bps
           /\ \A s \in 0..(maxSamples - 1) :
                  \A c \in 1..w.mNumChannels :
                      SubSeq(wavOut.data, (s * w.mNumChannels + c - 1) * bps + 1,
                             (s * w.mNumChannels + c) * bps)
                          = FrameSlot(w, c, s, bps)

(***************************************************************************)
(* The parents of the domain objects.                                      *)
(***************************************************************************)
\* The number of start tags among the first i events: the node of the
\* element that starts at event i.
RECURSIVE StartsUpTo(_, _)
StartsUpTo(events, i) ==
    IF i = 0 THEN 0
    ELSE StartsUpTo(events, i - 1) + (IF events[i].ev = "start" THEN 1 ELSE 0)

\* The element that starts at event p is open at event i.
OpenAt(events, p, i) ==
    /\ p < i
    /\ events[p].ev = "start"
    /\ \A k \in (p + 1)..(i - 1) : OpenAfter(events, k) - OpenAfter(events, p) >= 0

\* The start event of the nearest element named tag that encloses event
\* i; 0 when there is none.
Enclosing(events, i, tag) ==
    LET found == { p \in 1..(i - 1) : OpenAt(events, p, i) /\ events[p].name = tag }
    IN IF found = {} THEN 0 ELSE CHOOSE p \in found : \A q \in found : q <= p

\* The tag of the parents of the objects built for tag.
ParentTag(tag) ==
    CASE tag = S_waveblock -> S_sequence
      [] tag = S_sequence -> S_waveclip
      [] tag = S_waveclip -> S_wavetrack

DequeOf(h, tag) ==
    CASE tag = S_waveblock -> h.mWaveBlocks
      [] tag = S_sequence -> h.mSequences
      [] tag = S_waveclip -> h.mClips
      [] tag = S_wavetrack -> h.mWaveTracks

ChildrenOf(obj, tag) ==
    CASE tag = S_sequence -> obj.mBlocks
      [] tag = S_waveclip -> obj.mSequences
      [] tag = S_wavetrack -> obj.mClips

\* The positions in the deque of tag of the objects built for node.
ObjectsOf(h, tag, node) ==
    { k \in 1..Len(DequeOf(h, tag)) : DequeOf(h, tag)[k].mXMLNode = node }

\* The object built at event i has the nearest enclosing parent object as
\* its parent and stands in the parent's list at mParentIndex, after the
\* children built before it.
LinkedAt(h, events, i) ==
    LET tag == events[i].name
        p == Enclosing(events, i, ParentTag(tag))
        selves == ObjectsOf(h, tag, StartsUpTo(events, i))
        parents == ObjectsOf(h, ParentTag(tag), StartsUpTo(events, p))
    IN /\ Cardinality(selves) = 1
       /\ Cardinality(parents) = 1
       /\ \A self \in selves, parent \in parents :
              LET obj == DequeOf(h, tag)[self]
                  list == ChildrenOf(DequeOf(h, ParentTag(tag))[parent], ParentTag(tag))
              IN /\ obj.mParent = parent
                 /\ obj.mParentIndex < Len(list)
                 /\ list[obj.mParentIndex + 1] = self
                 /\ \A k \in 1..Len(list) : k < obj.mParentIndex + 1 => list[k] < self

\* C25: each waveblock, sequence and waveclip object built at a tag-start
\* has as parent the nearest enclosing sequence, waveclip and wavetrack
\* object, is appended to that parent's list in document order and has
\* parent_index equal to its position there, for every nesting, elements
\* of other names between the element and its parent included: no
\* tag-start fails, and every object built so far is linked so.
C25_ParentLinkage ==
    codec.phase = "links" =>
        /\ codec.h.fault = "none"
        /\ \A i \in 1..codec.done :
               (/\ codec.events[i].ev = "start"
                /\ codec.events[i].name \in {S_waveblock, S_sequence, S_waveclip})
                   => LinkedAt(codec.h, codec.events, i)

(***************************************************************************)
(* The pool of reusable strings.                                           *)
(***************************************************************************)

PoolOf(obj) == obj.project.mReusableStringsCache

\* C26: in every state that holds a project, after the parse and after any
\* number of fixupMissingBlocks calls, no two entries of the pool of
\* reusable strings are equal.
C26_PoolDeduplicated ==
    projectObj.status = "ok" =>
        \A i, j \in 1..Len(PoolOf(projectObj)) :
            PoolOf(projectObj)[i] = PoolOf(projectObj)[j] => i = j

(***************************************************************************)
(* The size of the rows extractClips copies from.                          *)
(***************************************************************************)

\* The window of every sequence of every clip: the sequence, firstSample,
\* lastSample and the bytes of a sample of the clip's track.
WindowsOf(p) ==
    UNION { { [sequence |-> p.mClips[c].mSequences[i],
               first |-> Llrint(p.mClips[c].mTrimLeft,
                                p.mWaveTracks[p.mClips[c].mParent].mRate),
               last |-> p.mSequences[p.mClips[c].mSequences[i]].mNumSamples
                            - Llrint(p.mClips[c].mTrimRight,
                                     p.mWaveTracks[p.mClips[c].mParent].mRate),
               bytesPerSample |->
                   BytesPerSample(p.mWaveTracks[p.mClips[c].mParent].mSampleFormat)] :
                 i \in 1..Len(p.mClips[c].mSequences) } : c \in 1..Len(p.mClips) }

\* The slices extractClips takes from the stored rows: for every non-silent
\* block that has a row and overlaps the window of its sequence, the block,
\* its in-block offset, its effective length and the bytes of a sample.
SlicesOf(p) ==
    { x \in { [block |-> b,
               sequence |-> w.sequence,
               offset |-> Max(p.mWaveBlocks[b].mStart, w.first) - p.mWaveBlocks[b].mStart,
               len |-> Min(p.mWaveBlocks[b].mStart + DerivedLength(p, b), w.last)
                           - Max(p.mWaveBlocks[b].mStart, w.first),
               bytesPerSample |-> w.bytesPerSample] :
                  b \in NonSilent(p), w \in WindowsOf(p) } :
          /\ Contains(p.mSequences[x.sequence].mBlocks, x.block)
          /\ x.len > 0
          /\ p.mWaveBlocks[x.block].mBlockId \in DOMAIN StoreAt }

\* C27: extractClips appends the slice of a non-silent block only if the
\* row has effective_len * bytes_per_sample bytes from
\* in_block_offset * bytes_per_sample on; otherwise it raises an error, so
\* no byte past the end of a row is copied.
C27_TruncatedBlockRaises ==
    (/\ lastOp.op = "extract"
     /\ \E x \in SlicesOf(projectObj.project) :
            Len(StoreAt[projectObj.project.mWaveBlocks[x.block].mBlockId].samples)
                < (x.offset + x.len) * x.bytesPerSample)
        => projectObj.status = "throw"

(***************************************************************************)
(* The scalars read from a buffer.                                         *)
(***************************************************************************)

\* The scalar of the last read lies in two chunks.
Straddles(offset, size) ==
    (offset \div BUFFER_SIZE) # ((offset + size - 1) \div BUFFER_SIZE)

\* C28: read<T>(offset) yields the sizeof(T) bytes at the logical positions
\* [offset, offset + sizeof(T)) of the buffer when offset + sizeof(T) <= N,
\* in whichever chunk the scalar lies and also when it lies in two chunks,
\* and fails (returns 0) when offset + sizeof(T) > N.
C28_ScalarRead ==
    lastRead.kind = "scalar" =>
        IF lastRead.offset + lastRead.size <= Len(written)
        THEN lastRead.data = SubSeq(written, lastRead.offset + 1,
                                    lastRead.offset + lastRead.size)
        ELSE lastRead.data = <<>>

(***************************************************************************)
(* The mutations of one invocation.                                        *)
(***************************************************************************)

\* The statements that were run on the writable sibling, in order.
SiblingLog == SelectSeq(storage.log, LAMBDA e : e.path = WritablePath)

\* The positions of SiblingLog at which a new file at the writable path
\* is first written to: the first statement of all, and the pragmas that
\* recoverDatabase runs on the database it has just created.
SiblingCreations ==
    { i \in 1..Len(SiblingLog) : i = 1 \/ SiblingLog[i].sql = "PRAGMA page_size ...; VACUUM" }

\* drop_autosave has deleted the autosave row of this invocation.
AutosaveDropped ==
    \E i \in 1..Len(storage.log) : storage.log[i].sql = "DELETE FROM autosave WHERE id = 1"

\* C30: the mutations of an invocation accumulate: the writable sibling is
\* made at most once, and the database the later steps work on holds the
\* effect of every earlier step; the autosave row drop_autosave deleted
\* stays deleted after recover_db, recover_project and compact.
C30_MutationsAccumulate ==
    (run.pc # "none" /\ projectDatabase.mDatabase.open /\ AutosaveDropped)
        => /\ Cardinality(SiblingCreations) <= 1
           /\ ~storage.files[projectDatabase.mDatabase.path].autosave.present

(***************************************************************************)
(* The recovery process.                                                   *)
(***************************************************************************)

\* The child cannot go on: its next write is to a pipe that is full.
ChildBlocked ==
    /\ codec.child = "running"
    /\ codec.next <= Len(codec.script)
    /\ IF codec.script[codec.next] = "err" THEN codec.err >= PipeCapacity
       ELSE Len(codec.out) >= PipeCapacity

\* recoverDatabase cannot go on: it is in getline on an empty pipe the
\* child holds open, or in c.wait() for a child that runs.
ParentBlocked ==
    \/ codec.pc = "getline" /\ codec.out = <<>> /\ codec.child = "running"
    \/ codec.pc = "wait" /\ codec.child = "running"

\* C29: recoverDatabase always returns: in no state does it wait for the
\* child (in c.wait() or in getline) while the child is blocked on a full
\* pipe, and when it has reached its end the child has written every line
\* of its standard output and none is left in the pipe.
C29_RecoveryReturns ==
    codec.phase = "pipes" =>
        /\ ~(ParentBlocked /\ ChildBlocked)
        /\ codec.pc = "done" =>
               /\ codec.out = <<>>
               /\ codec.next > Len(codec.script)

====
